---- MODULE Spec2Model ----
(***************************************************************************)
(* Verification model of the minecraft-server-launcher artifact pipeline.  *)
(*                                                                         *)
(*   Spec        utils.DoRequest + utils.DownloadFile: the retry loop, the *)
(*               staging file, the body-copy goroutine and cancellation.   *)
(*                                                                         *)
(*   SpecCheck   update.CheckForUpdate: one call, for every version and     *)
(*               feed answer.                                              *)
(*   SpecUpdate  run(): the self-update sequence, with DownloadFile.       *)
(*   SpecJar     package utils: the JAR validator and the checksum sidecar.*)
(*   SpecRun     run() from the update check to RunServer.                 *)
(*   SpecJava    run(), lines 223-269: the Java check and the RAM query.   *)
(*   SpecRotate  package backup: PerformBackup and rotateBackups.          *)
(*                                                                         *)
(* Files are modelled by their content: a sequence of bytes, or NoFile     *)
(* when the path does not exist.  A call of the operating system whose     *)
(* error the code tests may fail; a failed call leaves the files as they   *)
(* were.                                                                   *)
(***************************************************************************)
EXTENDS Integers, Sequences, FiniteSets, TLC

\* ------------------------------------------------------------------ bounds

\* Longest response body, in copy-buffer chunks.
MaxBody == 2

\* --------------------------------------------------------- program constants

MaxRetries == 3
\* RetryDelay, in seconds.
RetryDelay == 2
RetryBackoff == 2

\* What client.Do can come back with when ctx is not cancelled: a transport
\* error, or a response with one of these status codes.
StatusOK == "200"
Statuses == {StatusOK, "404", "500"}

\* ------------------------------------------------------------------- files

\* The content of a path that does not exist (no file holds it: it is no byte).
NoFile == <<"ENOENT">>
BodyBytes == {"x", "y"}
RECURSIVE SeqsUpTo(_, _)
SeqsUpTo(S, n) ==
    IF n = 0 THEN {<<>>}
    ELSE LET shorter == SeqsUpTo(S, n - 1)
         IN  shorter \cup {Append(s, b) : s \in {t \in shorter : Len(t) = n - 1}, b \in S}
\* The bodies a 200 response may carry.
Bodies == SeqsUpTo(BodyBytes, MaxBody)
\* What destPath may hold before the call.
PriorDest == {NoFile, <<"o">>}
\* What destPath.part may hold before the call: nothing, or the rest of an
\* interrupted download (longer than any body, so that a resumed or
\* untruncated file shows).
StalePart == [i \in 1..(MaxBody + 1) |-> "s"]
PriorPart == {NoFile, StalePart}

\* A JAR path is modelled by what the validator reads of it: its size, its
\* first two bytes, whether archive/zip finds a directory in it, the entries of
\* that directory, and id, which tells contents apart (two files of the same id
\* hold the same bytes).
NoJar ==
    [exists |-> FALSE, size |-> 0, head |-> <<>>, dir |-> FALSE, entries |-> 0,
     manifest |-> FALSE, id |-> 0]
\* The JAR names of a run: the one FindJarFile finds, and the one the build
\* feed names as the latest build.
JarNames == {"found", "latest"}

VARIABLES
    ctxDone,    \* ctx.Done() is closed
    urlOK,      \* http.NewRequestWithContext can build a request for url
    dpc,        \* where DoRequest / DownloadFile stands
    attempt,    \* DoRequest: attempt
    delay,      \* DoRequest: delay (seconds)
    elapsed,    \* seconds since time.After(delay) was armed
    lastErr,    \* DoRequest: lastErr ("none", "transport" or the status code)
    drResult,   \* what DoRequest returned ("none" while it runs)
    body,       \* body of the 200 response
    dest,       \* content of filename
    part,       \* content of filename + ".part"
    out,        \* the handle os.Create returned: "none", "open", "closed"
    closed,     \* DownloadFile: closed
    bodyOpen,   \* resp.Body has not been closed
    cpc,        \* the copy goroutine: "idle", "copying", "sent"
    copied,     \* chunks the copy goroutine has written
    done,       \* the buffered channel done (capacity 1)
    result,     \* what DownloadFile returned ("none" while it runs)
    \* history, for the properties
    dest0,      \* dest before the call
    part0,      \* part before the call
    sent,       \* HTTP requests client.Do has issued
    outcomes,   \* outcome of each HTTP attempt: "transport" or the status code
    waits,      \* seconds waited in each backoff that ran out
    faults,     \* operating-system and stream calls that failed
    cancelAt,   \* dpc when ctx was cancelled ("none": not cancelled)
    cancelMid,  \* the copy goroutine was in mid-stream when ctx was cancelled
    sentAtCancel, \* HTTP attempts issued when ctx was cancelled
    \* the self-update: package update, and run() in main.go
    upc,        \* where run() stands
    goos,       \* runtime.GOOS
    useToken,   \* getGitHubToken() != "" and asset.URL != ""
    hasAsset,   \* the release has an asset for runtime.GOOS / runtime.GOARCH
    launcherVersion, \* the package variable launcherVersion
    gitDescribe, \* what git describe --tags --abbrev=0 prints, or GitFails
    feed,       \* the release feed's answer: "transport", "status", "badjson", "ok"
    tag,        \* release.TagName of a well-formed answer
    hasUpdate,  \* CheckForUpdate's results
    release,
    checkErr,
    live,       \* content of os.Executable()
    backup,     \* content of backupFile, <exe>.old
    instResult, \* what InstallUpdate returned ("none": not called)
    instHit,    \* the calls of InstallUpdate that failed
    stageErr,   \* DownloadUpdate or ValidateUpdate returned an error in this run
    live0,      \* live when run() started
    staged0,    \* the staged file when InstallUpdate was called
    \* the managed JAR: package utils, package download, and run() in main.go
    rpc,        \* where run() stands after the self-update block
    jars,       \* content of each JAR path
    sidecars,   \* content of each JAR path + ".sha256"
    oldJar,     \* content of the found JAR path + ".old"
    latest,     \* the JAR name the build feed gives for the latest build
    jarFile,    \* run(): jarFile ("": none)
    expected,   \* run(): expectedChecksum
    verdict,    \* what the verification of the found JAR said ("none": not run)
    asked,      \* the user was asked the re-download question
    buildHas,   \* download.CheckUpdate's results
    buildErr,
    runResult,  \* what run() returned ("none" while it runs)
    vcall,      \* the last call into package utils and what it returned
    \* calls of single functions, outside run()
    compared,   \* the last call of compareVersions and what it returned
    installs,   \* runs of the launcher that reached InstallUpdate
    backup0,    \* backup when InstallUpdate was called
    \* run(), lines 237-269: the Java check beside the RAM query
    jpc,        \* the goroutine: "none", "checking", "send", "done"
    jres,       \* the goroutine's ver, verNum, err
    javaChan,   \* the buffered channel javaChan (capacity 1)
    javaRes,    \* run(): javaRes
    ramRes,     \* run(): totalRAM, availableRAM, err
    \* package backup
    backupDir,  \* the entries of BackupDir
    rot,        \* the call of rotateBackups and what it did
    \* RunServer and the child process it starts
    srv,
    \* a call of normalizeVersion and what it returned
    normalized

reqVars == <<urlOK, attempt, delay, elapsed, lastErr, drResult, sent, outcomes, waits>>
fileVars == <<body, dest, part, out, closed, bodyOpen, dest0, part0>>
copyVars == <<cpc, copied, done>>
ctxVars == <<ctxDone, cancelAt, cancelMid, sentAtCancel>>
vars == <<ctxDone, urlOK, dpc, attempt, delay, elapsed, lastErr, drResult, body, dest,
          part, out, closed, bodyOpen, cpc, copied, done, result, dest0, part0,
          sent, outcomes, waits, faults, cancelAt, cancelMid, sentAtCancel,
          upc, goos, useToken, hasAsset, launcherVersion, gitDescribe, feed, tag,
          hasUpdate, release, checkErr, live, backup, instResult, instHit, stageErr,
          live0, staged0, rpc, jars, sidecars, oldJar, latest, jarFile, expected,
          verdict, asked, buildHas, buildErr, runResult, vcall, compared,
          installs, backup0, jpc, jres, javaChan, javaRes, ramRes, backupDir, rot,
          srv, normalized>>
javaVars == <<jpc, jres, javaChan, javaRes, ramRes>>
rotVars == <<backupDir, rot>>
callVars == <<srv, normalized>>
libVars == <<compared, installs, backup0, javaVars, rotVars, callVars>>
checkVars == <<launcherVersion, gitDescribe, feed, tag, hasUpdate, release, checkErr>>
exeVars == <<goos, useToken, hasAsset, live, backup, instResult, instHit, stageErr, live0,
             staged0>>
runVars == <<rpc, jars, sidecars, oldJar, latest, jarFile, expected, verdict, asked,
             buildHas, buildErr, runResult, vcall>>
updVars == <<upc, checkVars, exeVars, runVars, libVars>>

\* The locals of a DownloadFile call that has not begun (pc0 = "idle") or is
\* at its first statement (pc0 = "req").
DownloadInit(pc0) ==
    /\ ctxDone = FALSE
    /\ urlOK \in BOOLEAN
    /\ dpc = pc0
    /\ attempt = 0
    /\ delay = RetryDelay
    /\ elapsed = 0
    /\ lastErr = "none"
    /\ drResult = "none"
    /\ body = <<>>
    /\ dest \in PriorDest
    /\ part \in PriorPart
    /\ out = "none"
    /\ closed = FALSE
    /\ bodyOpen = FALSE
    /\ cpc = "idle"
    /\ copied = 0
    /\ done = <<>>
    /\ result = "none"
    /\ dest0 = dest
    /\ part0 = part
    /\ sent = 0
    /\ outcomes = <<>>
    /\ waits = <<>>
    /\ faults = {}
    /\ cancelAt = "none"
    /\ cancelMid = FALSE
    /\ sentAtCancel = 0

\* No update check has been made.
CheckIdle ==
    /\ hasUpdate = FALSE
    /\ release = "nil"
    /\ checkErr = "nil"

\* The self-update sequence is not part of the behaviour.
UpdateIdle ==
    /\ upc = "idle"
    /\ goos = "linux"
    /\ useToken = FALSE
    /\ hasAsset = FALSE
    /\ launcherVersion = <<>>
    /\ gitDescribe = <<>>
    /\ feed = "ok"
    /\ tag = <<>>
    /\ CheckIdle
    /\ live = NoFile
    /\ backup = NoFile
    /\ instResult = "none"
    /\ instHit = {}
    /\ stageErr = FALSE
    /\ live0 = NoFile
    /\ staged0 = NoFile

\* No call into package utils has been made. A call is recorded with its
\* argument, whether a call of the operating system failed in it, what it
\* returned, and the call before it if that was a SaveChecksumFile or a
\* ValidateJarAndCalculateChecksum.
NoCall ==
    [op |-> "none", arg |-> <<>>, clean |-> TRUE, checksum |-> <<>>, err |-> "nil",
     prevOp |-> "none", prevArg |-> <<>>, prevErr |-> "nil", fetch |-> "none"]

\* The managed-JAR path of run() is not part of the behaviour.
NoComparison == [v1 |-> <<>>, v2 |-> <<>>, result |-> 0, called |-> FALSE]

NoJavaResult == [version |-> "", versionNum |-> 0, err |-> "unset"]
NoRam == [total |-> 0, avail |-> 0, err |-> "unset"]

JavaIdle ==
    /\ jpc = "none"
    /\ jres = NoJavaResult
    /\ javaChan = <<>>
    /\ javaRes = NoJavaResult
    /\ ramRes = NoRam

NoRotation ==
    [limit |-> 0, called |-> FALSE, result |-> "none", deleted |-> {}, unreadable |-> {}]

RotIdle ==
    /\ backupDir = {}
    /\ rot = NoRotation

\* RunServer has not been called.
NoServer ==
    [pc |-> "none", useZGC |-> FALSE, javaVersion |-> 0, child |-> "none",
     stubborn |-> FALSE, wpc |-> "none", done |-> <<>>, sigChan |-> <<>>,
     signals |-> 0, sig |-> "none", calls |-> <<>>, delivered |-> "none",
     result |-> "none"]

NoNormalize == [version |-> <<>>, results |-> <<>>]

CallIdle ==
    /\ srv = NoServer
    /\ normalized = NoNormalize

LibIdle ==
    /\ CallIdle
    /\ compared = NoComparison
    /\ installs = 0
    /\ backup0 = NoFile
    /\ JavaIdle
    /\ RotIdle

RunIdle ==
    /\ rpc = "none"
    /\ jars = [n \in JarNames |-> NoJar]
    /\ sidecars = [n \in JarNames |-> NoFile]
    /\ oldJar = NoJar
    /\ latest = "latest"
    /\ jarFile = ""
    /\ expected = <<>>
    /\ verdict = [res |-> "none", name |-> "", jar |-> NoJar]
    /\ asked = FALSE
    /\ buildHas = FALSE
    /\ buildErr = "nil"
    /\ runResult = "none"
    /\ vcall = NoCall

\* One call of DownloadFile(ctx, url, filename).
Init == DownloadInit("req") /\ UpdateIdle /\ RunIdle /\ LibIdle

\* ------------------------------------------------------------- the context

\* The caller cancels ctx (an interrupt or termination signal) while the call runs.
Cancel ==
    /\ ~ctxDone
    /\ dpc \notin {"idle", "returned"}
    /\ ctxDone' = TRUE
    /\ cancelAt' = dpc
    /\ cancelMid' = (cpc = "copying" /\ copied < Len(body))
    /\ sentAtCancel' = sent
    /\ UNCHANGED <<dpc, reqVars, fileVars, copyVars, result, faults>>
    /\ UNCHANGED updVars

\* A second passes while DoRequest waits in time.After(delay).
Tick ==
    /\ dpc = "backoff"
    /\ elapsed < delay
    /\ elapsed' = elapsed + 1
    /\ UNCHANGED <<ctxVars, urlOK, dpc, attempt, delay, lastErr, drResult, sent,
                   outcomes, waits, fileVars, copyVars, result, faults>>
    /\ UNCHANGED updVars

\* ------------------------------------------------------------- DoRequest

\* Mutant of NextDelay: the delay never grows.
NextDelay_Constant(d) == d

\* delay = time.Duration(float64(delay) * RetryBackoff)
NextDelay(d) == d * RetryBackoff

\* case <-time.After(delay) can proceed
TimerReady == elapsed >= delay

\* Mutant of DoneReady: ctx is looked at only once the delay has been slept out.
DoneReady_AfterSleep == ctxDone /\ elapsed >= delay

\* case <-ctx.Done() can proceed (the select of the backoff)
DoneReady == ctxDone

\* Mutant of HasNextAttempt: one iteration too many.
HasNextAttempt_OffByOne(a) == a + 1 <= MaxRetries

\* for attempt := 0; attempt < MaxRetries; attempt++: there is a next iteration
HasNextAttempt(a) == a + 1 < MaxRetries

\* DownloadFile returns res, after a step in which the calls in failed went
\* wrong: the deferred functions run, the one that closes the staging file and
\* removes it unless closed is set (a failure of the removal is only logged
\* and leaves the file), then resp.Body.Close().
Return(res, failed) ==
    /\ dpc' = "returned"
    /\ result' = res
    /\ bodyOpen' = FALSE
    /\ IF out # "none" /\ ~closed
       THEN /\ out' = "closed"
            /\ \/ part' = NoFile /\ faults' = faults \cup failed
               \/ part' = part /\ faults' = faults \cup failed \cup {"remove_part"}
       ELSE /\ UNCHANGED <<out, part>>
            /\ faults' = faults \cup failed

\* DoRequest returns an error, which DownloadFile returns as it is.
DoRequestFails(res) ==
    /\ drResult' = res
    /\ Return(res, {})
    /\ UNCHANGED <<body, dest, closed, dest0, part0, copyVars>>

\* http.NewRequestWithContext fails: DoRequest returns at once.
DR_BadURL ==
    /\ dpc = "req"
    /\ ~urlOK
    /\ DoRequestFails("create_request")
    /\ UNCHANGED <<ctxVars, urlOK, attempt, delay, elapsed, lastErr, sent, outcomes, waits>>
    /\ UNCHANGED updVars

\* client.Do(req) sends the request.
DR_Send ==
    /\ dpc = "req"
    /\ urlOK
    /\ ~ctxDone
    /\ dpc' = "inflight"
    /\ sent' = sent + 1
    /\ UNCHANGED <<ctxVars, urlOK, attempt, delay, elapsed, lastErr, drResult, outcomes,
                   waits, fileVars, copyVars, result, faults>>
    /\ UNCHANGED updVars

\* client.Do(req) with ctx already cancelled fails before anything is sent, and
\* ctx.Err() != nil.
DR_SendCancelled ==
    /\ dpc = "req"
    /\ urlOK
    /\ ctxDone
    /\ DoRequestFails("cancelled")
    /\ UNCHANGED <<ctxVars, urlOK, attempt, delay, elapsed, lastErr, sent, outcomes, waits>>
    /\ UNCHANGED updVars

\* The attempt failed with cause c: lastErr = c, and the loop goes on to the
\* backoff of the next attempt, or ends after the last one.
AttemptFailed(c) ==
    /\ outcomes' = Append(outcomes, c)
    /\ lastErr' = c
    /\ IF HasNextAttempt(attempt)
       THEN /\ attempt' = attempt + 1
            /\ elapsed' = 0
            /\ dpc' = "backoff"
            /\ UNCHANGED <<drResult, result, fileVars, copyVars, faults>>
       ELSE /\ DoRequestFails("exhausted")
            /\ UNCHANGED <<attempt, elapsed>>
    /\ UNCHANGED <<ctxVars, urlOK, delay, sent, waits>>

\* client.Do returns a transport error while ctx is not cancelled.
DR_TransportError ==
    /\ dpc = "inflight"
    /\ ~ctxDone
    /\ AttemptFailed("transport")
    /\ UNCHANGED updVars

\* client.Do returns a response whose status is not 200; ctx is not looked at,
\* and the response may have come in as ctx was cancelled.
DR_BadStatus ==
    /\ dpc = "inflight"
    /\ \E st \in Statuses \ {StatusOK} : AttemptFailed(st)
    /\ UNCHANGED updVars

\* client.Do returns an error and ctx.Err() != nil.
DR_DoCancelled ==
    /\ dpc = "inflight"
    /\ ctxDone
    /\ DoRequestFails("cancelled")
    /\ UNCHANGED <<ctxVars, urlOK, attempt, delay, elapsed, lastErr, sent, outcomes, waits>>
    /\ UNCHANGED updVars

\* client.Do returns a 200 response: DoRequest returns it, DownloadFile goes on;
\* ctx is not looked at, and the response may have come in as ctx was cancelled.
DR_OK ==
    /\ dpc = "inflight"
    /\ outcomes' = Append(outcomes, StatusOK)
    /\ drResult' = "resp"
    /\ \E b \in Bodies : body' = b
    /\ bodyOpen' = TRUE
    /\ dpc' = "stat_part"
    /\ UNCHANGED <<ctxVars, urlOK, attempt, delay, elapsed, lastErr, sent, waits, dest, part,
                   out, closed, dest0, part0, copyVars, result, faults>>
    /\ UNCHANGED updVars

\* select: case <-time.After(delay).
DR_BackoffElapsed ==
    /\ dpc = "backoff"
    /\ TimerReady
    /\ waits' = Append(waits, elapsed)
    /\ delay' = NextDelay(delay)
    /\ dpc' = "req"
    /\ UNCHANGED <<ctxVars, urlOK, attempt, elapsed, lastErr, drResult, sent, outcomes,
                   fileVars, copyVars, result, faults>>
    /\ UNCHANGED updVars

\* select: case <-ctx.Done().
DR_BackoffCancelled ==
    /\ dpc = "backoff"
    /\ DoneReady
    /\ DoRequestFails("cancelled")
    /\ UNCHANGED <<ctxVars, urlOK, attempt, delay, elapsed, lastErr, sent, outcomes, waits>>
    /\ UNCHANGED updVars

DoRequest ==
    \/ DR_BadURL
    \/ DR_Send
    \/ DR_SendCancelled
    \/ DR_TransportError
    \/ DR_BadStatus
    \/ DR_DoCancelled
    \/ DR_OK
    \/ DR_BackoffElapsed
    \/ DR_BackoffCancelled

\* ------------------------------------------------------------ DownloadFile

\* Mutant of Created: an existing file is opened without being truncated.
Created_NoTruncate(old) == IF old = NoFile THEN <<>> ELSE old

\* Mutant of Created: the first byte of a file that is there is kept.
Created_Resumes(old) == IF old = NoFile THEN <<>> ELSE SubSeq(old, 1, 1)

\* What os.Create(tempFile) leaves at the path: an empty file, whatever was there.
Created(old) == <<>>

\* What os.Rename(tempFile, filename) leaves at <<filename, tempFile>>.
Renamed(staged) == <<staged, NoFile>>

\* DownloadFile returns res after the step that failed.
Fail(res, fault) == Return(res, {fault})

\* os.Stat(tempFile) finds no stale staging file.
DF_NoStale ==
    /\ dpc = "stat_part"
    /\ part = NoFile
    /\ dpc' = "create"
    /\ UNCHANGED <<ctxVars, reqVars, fileVars, copyVars, result, faults>>
    /\ UNCHANGED updVars

\* os.Stat(tempFile) finds a stale staging file and os.Remove removes it, or
\* fails to, which is only logged.
DF_RemoveStale ==
    /\ dpc = "stat_part"
    /\ part # NoFile
    /\ \/ part' = NoFile /\ UNCHANGED faults
       \/ part' = part /\ faults' = faults \cup {"remove_stale"}
    /\ dpc' = "create"
    /\ UNCHANGED <<ctxVars, reqVars, body, dest, out, closed, bodyOpen, dest0, part0,
                   copyVars, result>>
    /\ UNCHANGED updVars

\* os.Create(tempFile) succeeds, and the cleanup is deferred.
DF_Create ==
    /\ dpc = "create"
    /\ part' = Created(part)
    /\ out' = "open"
    /\ dpc' = "spawn"
    /\ UNCHANGED <<ctxVars, reqVars, body, dest, closed, bodyOpen, dest0, part0, copyVars,
                   result, faults>>
    /\ UNCHANGED updVars

\* os.Create(tempFile) fails.
DF_CreateFails ==
    /\ dpc = "create"
    /\ Fail("create_temp", "create")
    /\ UNCHANGED <<ctxVars, reqVars, body, dest, closed, dest0, part0, copyVars>>
    /\ UNCHANGED updVars

\* go func() { ... }(): the copy goroutine starts.
DF_Spawn ==
    /\ dpc = "spawn"
    /\ cpc' = "copying"
    /\ dpc' = "select"
    /\ UNCHANGED <<ctxVars, reqVars, fileVars, copied, done, result, faults>>
    /\ UNCHANGED updVars

\* select: case <-ctx.Done(): return ctx.Err().
DF_SelectCancelled ==
    /\ dpc = "select"
    /\ ctxDone
    /\ Return("cancelled", {})
    /\ UNCHANGED <<ctxVars, reqVars, body, dest, closed, dest0, part0, copyVars>>
    /\ UNCHANGED updVars

\* Mutant of CopyFailed: the error of the copy is not looked at.
CopyFailed_Ignored(err) == FALSE

\* case err := <-done: if err != nil
CopyFailed(err) == err # "nil"

\* select: case err := <-done, with err != nil.
DF_SelectCopyError ==
    /\ dpc = "select"
    /\ done # <<>>
    /\ CopyFailed(Head(done))
    /\ done' = Tail(done)
    /\ Return("write", {})
    /\ UNCHANGED <<ctxVars, reqVars, body, dest, closed, dest0, part0, cpc, copied>>
    /\ UNCHANGED updVars

\* select: case err := <-done, with err == nil.
DF_SelectCopied ==
    /\ dpc = "select"
    /\ done # <<>>
    /\ ~CopyFailed(Head(done))
    /\ done' = Tail(done)
    /\ dpc' = "close"
    /\ UNCHANGED <<ctxVars, reqVars, fileVars, cpc, copied, result, faults>>
    /\ UNCHANGED updVars

\* out.Close() succeeds: closed = true.
DF_Close ==
    /\ dpc = "close"
    /\ out' = "closed"
    /\ closed' = TRUE
    /\ dpc' = "stat_dest"
    /\ UNCHANGED <<ctxVars, reqVars, body, dest, part, bodyOpen, dest0, part0, copyVars,
                   result, faults>>
    /\ UNCHANGED updVars

\* out.Close() fails.
DF_CloseFails ==
    /\ dpc = "close"
    /\ Fail("close", "close")
    /\ UNCHANGED <<ctxVars, reqVars, body, dest, closed, dest0, part0, copyVars>>
    /\ UNCHANGED updVars

\* os.Stat(filename) finds no file.
DF_NoExisting ==
    /\ dpc = "stat_dest"
    /\ dest = NoFile
    /\ dpc' = "rename"
    /\ UNCHANGED <<ctxVars, reqVars, fileVars, copyVars, result, faults>>
    /\ UNCHANGED updVars

\* os.Stat(filename) finds the file and os.Remove(filename) removes it.
DF_RemoveExisting ==
    /\ dpc = "stat_dest"
    /\ dest # NoFile
    /\ dest' = NoFile
    /\ dpc' = "rename"
    /\ UNCHANGED <<ctxVars, reqVars, body, part, out, closed, bodyOpen, dest0, part0,
                   copyVars, result, faults>>
    /\ UNCHANGED updVars

\* os.Remove(filename) fails.
DF_RemoveExistingFails ==
    /\ dpc = "stat_dest"
    /\ dest # NoFile
    /\ Fail("remove_existing", "remove_dest")
    /\ UNCHANGED <<ctxVars, reqVars, body, dest, closed, dest0, part0, copyVars>>
    /\ UNCHANGED updVars

\* os.Rename(tempFile, filename) succeeds: DownloadFile returns nil.
DF_Rename ==
    /\ dpc = "rename"
    /\ dest' = Renamed(part)[1]
    /\ part' = Renamed(part)[2]
    /\ dpc' = "returned"
    /\ result' = "ok"
    /\ bodyOpen' = FALSE
    /\ UNCHANGED <<ctxVars, reqVars, body, out, closed, dest0, part0, copyVars, faults>>
    /\ UNCHANGED updVars

\* os.Rename(tempFile, filename) fails.
DF_RenameFails ==
    /\ dpc = "rename"
    /\ Fail("rename", "rename")
    /\ UNCHANGED <<ctxVars, reqVars, body, dest, closed, dest0, part0, copyVars>>
    /\ UNCHANGED updVars

DownloadFile ==
    \/ DoRequest
    \/ DF_NoStale
    \/ DF_RemoveStale
    \/ DF_Create
    \/ DF_CreateFails
    \/ DF_Spawn
    \/ DF_SelectCancelled
    \/ DF_SelectCopyError
    \/ DF_SelectCopied
    \/ DF_Close
    \/ DF_CloseFails
    \/ DF_NoExisting
    \/ DF_RemoveExisting
    \/ DF_RemoveExistingFails
    \/ DF_Rename
    \/ DF_RenameFails

\* ------------------------------------------- the copy goroutine (io.CopyBuffer)

\* A Write on out reaches the file: out has not been closed.
CanWrite == out = "open"

\* One round of io.CopyBuffer: a chunk is read from resp.Body and written to out.
CP_Chunk ==
    /\ cpc = "copying"
    /\ bodyOpen
    /\ CanWrite
    /\ copied < Len(body)
    /\ part' = Append(part, body[copied + 1])
    /\ copied' = copied + 1
    /\ UNCHANGED <<ctxVars, reqVars, dpc, body, dest, out, closed, bodyOpen, dest0, part0,
                   cpc, done, result, faults>>
    /\ UNCHANGED updVars

\* done := make(chan error, 1)
DoneCap == 1

\* Mutant of CanSend: the result channel has no buffer.
CanSend_Unbuffered(ch) == Len(ch) < 0

\* done <- err goes through when the buffer of the channel has room; it blocks
\* otherwise.
CanSend(ch) == Len(ch) < DoneCap

\* resp.Body is at its end: io.CopyBuffer returns nil, and done <- nil.
CP_Finish ==
    /\ cpc = "copying"
    /\ CanSend(done)
    /\ bodyOpen
    /\ copied = Len(body)
    /\ done' = Append(done, "nil")
    /\ cpc' = "sent"
    /\ UNCHANGED <<ctxVars, reqVars, dpc, fileVars, copied, result, faults>>
    /\ UNCHANGED updVars

\* A Read of resp.Body or a Write on out fails (the stream breaks, the disk is
\* full, or DownloadFile has closed them): done <- err.
CP_Error ==
    /\ cpc = "copying"
    /\ CanSend(done)
    /\ done' = Append(done, "err")
    /\ cpc' = "sent"
    /\ faults' = IF dpc = "returned" THEN faults ELSE faults \cup {"stream"}
    /\ UNCHANGED <<ctxVars, reqVars, dpc, fileVars, copied, result>>
    /\ UNCHANGED updVars

Copier ==
    \/ CP_Chunk
    \/ CP_Finish
    \/ CP_Error

Next ==
    \/ DownloadFile
    \/ Copier
    \/ Cancel
    \/ Tick

Spec == Init /\ [][Next]_vars

\* The copy goroutine is scheduled while it can take a step: a Read of
\* resp.Body returns (bytes, the end, or an error once the body is closed or
\* the client's timeout has passed) and so does a Write on out.
SpecCopier == Init /\ [][Next]_vars /\ WF_vars(Copier)

\* ----------------------------------------------------- package update: versions

\* A string is the sequence of its characters.
Digits == <<"0", "1", "2", "3", "4", "5", "6", "7", "8", "9">>
IsDigit(c) == \E d \in 1..10 : Digits[d] = c
DigitValue(c) == (CHOOSE d \in 1..10 : Digits[d] = c) - 1
\* unicode.IsSpace, on the characters of the model
IsSpace(c) == c \in {" ", "\t", "\n", "\r"}

\* strings.TrimPrefix(s, "v")
TrimPrefixV(s) == IF Len(s) >= 1 /\ s[1] = "v" THEN Tail(s) ELSE s

\* strings.TrimSpace(s)
RECURSIVE TrimLeft(_)
TrimLeft(s) == IF Len(s) >= 1 /\ IsSpace(s[1]) THEN TrimLeft(Tail(s)) ELSE s
RECURSIVE TrimRight(_)
TrimRight(s) ==
    IF Len(s) >= 1 /\ IsSpace(s[Len(s)]) THEN TrimRight(SubSeq(s, 1, Len(s) - 1)) ELSE s
TrimSpace(s) == TrimRight(TrimLeft(s))

normalizeVersion(version) == TrimSpace(TrimPrefixV(version))

\* A Go int on a 64-bit platform, as four 16-bit limbs, lowest first: the
\* arithmetic of compareVersions wraps around modulo 2^64.
Int64Zero == <<0, 0, 0, 0>>

\* n*10 + d
MulAdd64(n, d) ==
    LET t1 == n[1] * 10 + d
        t2 == n[2] * 10 + (t1 \div 65536)
        t3 == n[3] * 10 + (t2 \div 65536)
        t4 == n[4] * 10 + (t3 \div 65536)
    IN  <<t1 % 65536, t2 % 65536, t3 % 65536, t4 % 65536>>

\* The highest limb carries the sign.
SignedTop(n) == IF n[4] >= 32768 THEN n[4] - 65536 ELSE n[4]

\* n1 > n2
Greater64(n1, n2) ==
    \/ SignedTop(n1) > SignedTop(n2)
    \/ /\ n1[4] = n2[4]
       /\ \E k \in 1..3 : n1[k] > n2[k] /\ \A j \in (k + 1)..3 : n1[j] = n2[j]

\* Mutant of CompareComponents: the sign of the wrapping difference n1 - n2.
CompareComponents_BySubtraction(n1, n2) ==
    LET d1 == n1[1] - n2[1]
        d2 == n1[2] - n2[2] - (IF d1 < 0 THEN 1 ELSE 0)
        d3 == n1[3] - n2[3] - (IF d2 < 0 THEN 1 ELSE 0)
        d4 == n1[4] - n2[4] - (IF d3 < 0 THEN 1 ELSE 0)
        d == <<d1 % 65536, d2 % 65536, d3 % 65536, d4 % 65536>>
    IN  IF d = Int64Zero THEN 0
        ELSE IF d[4] >= 32768 THEN -1
        ELSE 1

\* Mutant of CompareComponents: the lesser side is not reported.
CompareComponents_NoLess(n1, n2) ==
    IF Greater64(n1, n2) THEN 1 ELSE 0

\* The end of the outer loop's body: 1, -1, or 0 to go on.
CompareComponents(n1, n2) ==
    IF Greater64(n1, n2) THEN 1
    ELSE IF Greater64(n2, n1) THEN -1
    ELSE 0

\* The inner loop of compareVersions, from index i (1-based): reads one component
\* up to and including the next ".", accumulating n and clearing valid on any
\* character that is no digit.
RECURSIVE ScanComponent(_, _, _, _)
ScanComponent(v, i, n, valid) ==
    IF i > Len(v) THEN [n |-> n, valid |-> valid, next |-> i]
    ELSE IF v[i] = "." THEN [n |-> n, valid |-> valid, next |-> i + 1]
    ELSE IF IsDigit(v[i]) THEN ScanComponent(v, i + 1, MulAdd64(n, DigitValue(v[i])), valid)
    ELSE ScanComponent(v, i + 1, n, FALSE)

\* The outer loop of compareVersions, with i1 and i2 where it stands.
RECURSIVE CompareFrom(_, _, _, _)
CompareFrom(v1, v2, i1, i2) ==
    IF ~(i1 <= Len(v1) \/ i2 <= Len(v2)) THEN 0
    ELSE LET c1 == ScanComponent(v1, i1, Int64Zero, TRUE)
             c2 == ScanComponent(v2, i2, Int64Zero, TRUE)
             n1 == IF c1.valid THEN c1.n ELSE Int64Zero
             n2 == IF c2.valid THEN c2.n ELSE Int64Zero
             r == CompareComponents(n1, n2)
         IN  IF r # 0 THEN r
             ELSE CompareFrom(v1, v2, c1.next, c2.next)

compareVersions(v1, v2) == CompareFrom(v1, v2, 1, 1)

V_dev == <<"d", "e", "v">>
GitFails == <<"exit status 128">>

\* getVersionFromGit(), for what git describe printed
getVersionFromGit(output) ==
    IF output = GitFails THEN V_dev
    ELSE LET version == normalizeVersion(TrimSpace(output))
         IN  IF version = <<>> THEN V_dev ELSE version

\* GetCurrentVersion()
GetCurrentVersion(lv, git) ==
    IF lv = <<>> \/ lv = V_dev THEN getVersionFromGit(git) ELSE lv

\* Mutant of IsNotNewer: a release equal to the current version counts as newer.
IsNotNewer_Strict(comparison) == comparison < 0

\* if comparison <= 0 { return false, nil, nil }
IsNotNewer(comparison) == comparison <= 0

\* CheckForUpdate(ctx): its three results, for the feed's answer f (with tag t)
\* and the current version.
CheckForUpdateResult(f, t, lv, git) ==
    IF f # "ok" THEN [has |-> FALSE, release |-> "nil", err |-> f]
    ELSE LET currentVersion == normalizeVersion(GetCurrentVersion(lv, git))
             latestVersion == normalizeVersion(t)
         IN  IF currentVersion = <<>> \/ latestVersion = <<>>
                 THEN [has |-> FALSE, release |-> "nil", err |-> "nil"]
             ELSE IF IsNotNewer(compareVersions(latestVersion, currentVersion))
                 THEN [has |-> FALSE, release |-> "nil", err |-> "nil"]
             ELSE [has |-> TRUE, release |-> "release", err |-> "nil"]

\* run(): hasUpdate, release, err := update.CheckForUpdate()
CheckForUpdate ==
    /\ upc = "check"
    /\ LET r == CheckForUpdateResult(feed, tag, launcherVersion, gitDescribe)
       IN  /\ hasUpdate' = r.has
           /\ release' = r.release
           /\ checkErr' = r.err
    /\ upc' = "checked"
    /\ UNCHANGED <<runVars, ctxVars, reqVars, dpc, fileVars, copyVars, result, faults,
                   launcherVersion, gitDescribe, feed, tag, exeVars>>
    /\ UNCHANGED libVars

\* The characters version strings are made of, and the longest tag tried.
VersionChars == {"0", "1", "2", ".", "v", " "}
MaxTagLen == 3
\* Components of 19 and 20 digits: 2^63 - 1, 2^63, 2^64 and 2^64 + 1.
LongVersions ==
    { <<"9","2","2","3","3","7","2","0","3","6","8","5","4","7","7","5","8","0","7">>,
      <<"9","2","2","3","3","7","2","0","3","6","8","5","4","7","7","5","8","0","8">>,
      <<"1","8","4","4","6","7","4","4","0","7","3","7","0","9","5","5","1","6","1","6">>,
      <<"1","8","4","4","6","7","4","4","0","7","3","7","0","9","5","5","1","6","1","7">> }

\* launcherVersion as the build sets it: unset, "dev", or a version, those with
\* a component beyond the range of a Go int among them.
LauncherVersions ==
    { <<>>, V_dev, <<"1">>, <<"1", ".", "0">>, <<"v", "1", ".", "0">>, <<"1", ".", "2">>,
      <<"0", ".", "2", ".", "1">>, <<"v">>, <<" ">> } \cup LongVersions
\* release.TagName of the feed's answer
TagNames == SeqsUpTo(VersionChars, MaxTagLen) \cup LongVersions
GitOutputs == { GitFails, <<>>, <<"v", "1", ".", "0", "\n">> }

\* One call of CheckForUpdate, for every launcher version, git answer and feed answer.
InitCheck ==
    /\ DownloadInit("idle")
    /\ urlOK
    /\ dest = NoFile
    /\ part = NoFile
    /\ upc = "check"
    /\ goos = "linux"
    /\ useToken = FALSE
    /\ hasAsset = FALSE
    /\ launcherVersion \in LauncherVersions
    /\ gitDescribe \in GitOutputs
    /\ (launcherVersion \notin {<<>>, V_dev}) => gitDescribe = GitFails
    /\ feed \in {"transport", "status", "badjson", "ok"}
    /\ tag \in TagNames
    /\ feed # "ok" => tag = <<>>
    /\ CheckIdle
    /\ live = NoFile
    /\ backup = NoFile
    /\ instResult = "none"
    /\ instHit = {}
    /\ stageErr = FALSE
    /\ live0 = NoFile
    /\ staged0 = NoFile
    /\ RunIdle
    /\ LibIdle

NextCheck == CheckForUpdate

SpecCheck == InitCheck /\ [][NextCheck]_vars

\* ------------------------------------------- compareVersions, one call at a time

\* Characters of the version strings compared: digits, the separator, a letter.
CompareChars == {"0", "1", ".", "x"}

\* The strings of TestCompareVersions that the short ones leave out.
TestVersions ==
    { <<"1", ".", "0", ".", "0">>, <<"1", ".", "0", ".", "1">>,
      <<"1", ".", "1", ".", "0">>, <<"1", ".", "x", ".", "0">> }

VersionStrings == SeqsUpTo(CompareChars, MaxTagLen) \cup TestVersions \cup LongVersions

\* compareVersions(v1, v2)
CompareVersionsCall ==
    /\ ~compared.called
    /\ compared' = [compared EXCEPT !.result = compareVersions(compared.v1, compared.v2),
                                    !.called = TRUE]
    /\ UNCHANGED <<ctxVars, reqVars, dpc, fileVars, copyVars, result, faults, upc,
                   checkVars, exeVars, runVars, installs, backup0,
                   javaVars, rotVars, callVars>>

InitCompare ==
    /\ DownloadInit("idle")
    /\ urlOK
    /\ dest = NoFile
    /\ part = NoFile
    /\ UpdateIdle
    /\ RunIdle
    /\ \E a \in VersionStrings, b \in VersionStrings :
          compared = [v1 |-> a, v2 |-> b, result |-> 0, called |-> FALSE]
    /\ installs = 0
    /\ backup0 = NoFile
    /\ JavaIdle
    /\ RotIdle
    /\ CallIdle

NextCompare == CompareVersionsCall

SpecCompare == InitCompare /\ [][NextCompare]_vars

\* ------------------------------------------- package update: the self-update

\* Mutant of Restore: the backup is not renamed back.
Restore_Skipped(original, restoreFails) ==
    [live |-> NoFile, backup |-> original, res |-> "restored"]

\* InstallUpdate, after os.Rename(tempFile, exePath) failed: os.Rename(backupFile,
\* exePath), and the error returned.
Restore(original, restoreFails) ==
    IF restoreFails
    THEN [live |-> NoFile, backup |-> original, res |-> "unrecoverable"]
    ELSE [live |-> original, backup |-> NoFile, res |-> "restored"]

\* The calls InstallUpdate makes that can fail.
InstallCalls == {"exe_path", "remove_backup", "backup", "install", "restore", "chmod"}

\* Mutant of InstallUpdateResult: an earlier backup is kept.
InstallUpdateResult_KeepsBackup(lv, bk, st, os, fails) ==
    LET R(l, b, t, res, hit) ==
            [live |-> l, backup |-> b, staged |-> t, res |-> res, hit |-> hit]
        kept == IF bk # NoFile THEN bk ELSE lv
    IN  IF "exe_path" \in fails THEN R(lv, bk, st, "exe_path", {"exe_path"})
        ELSE IF "backup" \in fails THEN R(lv, bk, st, "backup", {"backup"})
        ELSE IF "install" \in fails \/ st = NoFile
            THEN LET r == Restore(lv, "restore" \in fails)
                 IN  R(r.live, r.backup, st, r.res, {"install"} \cup (fails \cap {"restore"}))
        ELSE IF os # "windows" /\ "chmod" \in fails THEN R(st, kept, NoFile, "chmod", {"chmod"})
        ELSE R(st, kept, NoFile, "ok", {})

\* InstallUpdate(tempFile) with the live executable lv, the backup bk and the
\* staged file st, where the calls of fails fail: the three files afterwards, the
\* result ("ok" or the error) and the failures met.
InstallUpdateResult(lv, bk, st, os, fails) ==
    LET R(l, b, t, res, hit) ==
            [live |-> l, backup |-> b, staged |-> t, res |-> res, hit |-> hit]
    IN  IF "exe_path" \in fails THEN R(lv, bk, st, "exe_path", {"exe_path"})
        ELSE IF bk # NoFile /\ "remove_backup" \in fails
            THEN R(lv, bk, st, "remove_backup", {"remove_backup"})
        ELSE IF "backup" \in fails THEN R(lv, NoFile, st, "backup", {"backup"})
        ELSE IF "install" \in fails \/ st = NoFile
            THEN LET r == Restore(lv, "restore" \in fails)
                 IN  R(r.live, r.backup, st, r.res, {"install"} \cup (fails \cap {"restore"}))
        ELSE IF os # "windows" /\ "chmod" \in fails THEN R(st, lv, NoFile, "chmod", {"chmod"})
        ELSE R(st, lv, NoFile, "ok", {})

\* Mutant of ValidateUpdate: the size is not looked at.
ValidateUpdate_AnySize(st, statFails) ==
    IF statFails \/ st = NoFile THEN "stat" ELSE "ok"

\* ValidateUpdate(tempFile)
ValidateUpdate(st, statFails) ==
    IF statFails \/ st = NoFile THEN "stat"
    ELSE IF Len(st) = 0 THEN "empty"
    ELSE "ok"

\* downloadGitHubReleaseAsset(ctx, assetAPIURL, token, filename), with d at
\* filename, p at filename + ".part" and b the response body, where the call
\* failAt fails ("none": no call fails): the two files afterwards and the result.
GitHubAssetResult(d, p, b, failAt, removeStaleFails) ==
    LET R(dd, pp, res) == [dest |-> dd, part |-> pp, res |-> res]
        p1 == IF p # NoFile /\ ~removeStaleFails THEN NoFile ELSE p
    IN  IF failAt \in {"request", "status"} THEN R(d, p, failAt)
        ELSE IF failAt = "create" THEN R(d, p1, "create_temp")
        ELSE IF failAt = "copy" THEN R(d, NoFile, "write")
        ELSE IF failAt = "close" THEN R(d, NoFile, "close")
        ELSE IF failAt = "remove_dest" /\ d # NoFile THEN R(d, b, "remove_existing")
        ELSE IF failAt = "rename" THEN R(NoFile, b, "rename")
        ELSE R(b, NoFile, "ok")

GitHubCalls == {"none", "request", "status", "create", "copy", "close", "remove_dest", "rename"}

\* run(): err != nil after CheckForUpdate: logged, and the launch goes on.
UP_CheckFailed ==
    /\ upc = "checked"
    /\ checkErr # "nil"
    /\ upc' = "launch"
    /\ UNCHANGED <<runVars, ctxVars, reqVars, dpc, fileVars, copyVars, result, faults, checkVars,
                   exeVars>>
    /\ UNCHANGED libVars

\* run(): no error and no update.
UP_NoUpdate ==
    /\ upc = "checked"
    /\ checkErr = "nil"
    /\ ~hasUpdate
    /\ upc' = "launch"
    /\ UNCHANGED <<runVars, ctxVars, reqVars, dpc, fileVars, copyVars, result, faults, checkVars,
                   exeVars>>
    /\ UNCHANGED libVars

\* run(): an update is there; doUpdate is cfg.AutoUpdateLauncher or the answer
\* to the prompt.
UP_Decide ==
    /\ upc = "checked"
    /\ checkErr = "nil"
    /\ hasUpdate
    /\ \E doUpdate \in BOOLEAN : upc' = IF doUpdate THEN "download" ELSE "launch"
    /\ UNCHANGED <<runVars, ctxVars, reqVars, dpc, fileVars, copyVars, result, faults, checkVars,
                   exeVars>>
    /\ UNCHANGED libVars

\* DownloadUpdate: no asset for this platform, or os.Executable() fails; run()
\* logs the error and goes on.
UP_DownloadUnavailable ==
    /\ upc = "download"
    /\ \/ ~hasAsset
       \/ hasAsset
    /\ stageErr' = TRUE
    /\ upc' = "launch"
    /\ UNCHANGED <<runVars, ctxVars, reqVars, dpc, fileVars, copyVars, result, faults, checkVars,
                   goos, useToken, hasAsset, live, backup, instResult, instHit, live0,
                   staged0>>
    /\ UNCHANGED libVars

\* DownloadUpdate calls utils.DownloadFile(ctx, asset.BrowserDownloadURL, tempFile).
UP_DownloadShared ==
    /\ upc = "download"
    /\ hasAsset
    /\ ~useToken
    /\ dpc' = "req"
    /\ upc' = "downloading"
    /\ UNCHANGED <<runVars, ctxVars, reqVars, fileVars, copyVars, result, faults, checkVars, exeVars>>
    /\ UNCHANGED libVars

\* DownloadUpdate calls downloadGitHubReleaseAsset(ctx, asset.URL, token, tempFile),
\* which runs to its end on this goroutine.
UP_DownloadGitHub ==
    /\ upc = "download"
    /\ hasAsset
    /\ useToken
    /\ \E b \in Bodies, failAt \in GitHubCalls, removeStaleFails \in BOOLEAN :
          LET r == GitHubAssetResult(dest, part, b, failAt, removeStaleFails)
          IN  /\ dest' = r.dest
              /\ part' = r.part
              /\ result' = r.res
              /\ body' = IF failAt \in {"request", "status"} THEN body ELSE b
              \* the one request utils.HTTPClient.Do(req) issues
              /\ sent' = 1
              /\ outcomes' \in IF failAt = "request" THEN {<<"transport">>}
                               ELSE IF failAt = "status"
                                   THEN {<<code>> : code \in Statuses \ {StatusOK}}
                               ELSE {<<StatusOK>>}
    /\ dpc' = "returned"
    /\ upc' = "downloading"
    /\ UNCHANGED <<runVars, ctxVars, urlOK, attempt, delay, elapsed, lastErr, drResult, waits,
                   out, closed, bodyOpen, dest0, part0, copyVars, faults, checkVars, exeVars>>
    /\ UNCHANGED libVars

\* The download has returned: its locals are gone, and so is the response
\* unless the copy goroutine still reads it. The copy goroutine, the files and
\* ctx stay as they are.
CallOver ==
    /\ dpc' = "idle"
    /\ attempt' = 0
    /\ delay' = RetryDelay
    /\ elapsed' = 0
    /\ lastErr' = "none"
    /\ drResult' = "none"
    /\ sent' = 0
    /\ outcomes' = <<>>
    /\ waits' = <<>>
    /\ faults' = {}
    /\ result' = "none"
    /\ body' = IF cpc = "copying" THEN body ELSE <<>>
    /\ UNCHANGED <<ctxVars, urlOK, out, closed, bodyOpen, dest0, part0, copyVars>>

\* DownloadUpdate returns the download's error; run() logs it and goes on.
UP_DownloadFailed ==
    /\ upc = "downloading"
    /\ dpc = "returned"
    /\ result # "ok"
    /\ CallOver
    /\ stageErr' = TRUE
    /\ upc' = "launch"
    /\ UNCHANGED <<runVars, dest, part, checkVars, goos, useToken, hasAsset, live, backup,
                   instResult, instHit, live0, staged0>>
    /\ UNCHANGED libVars

\* DownloadUpdate: os.Chmod(tempFile, 0755) fails (not on Windows); run() logs
\* the error and goes on.
UP_ChmodFails ==
    /\ upc = "downloading"
    /\ dpc = "returned"
    /\ result = "ok"
    /\ goos # "windows"
    /\ CallOver
    /\ stageErr' = TRUE
    /\ upc' = "launch"
    /\ UNCHANGED <<runVars, dest, part, checkVars, goos, useToken, hasAsset, live, backup,
                   instResult, instHit, live0, staged0>>
    /\ UNCHANGED libVars

\* DownloadUpdate returns tempFile.
UP_Downloaded ==
    /\ upc = "downloading"
    /\ dpc = "returned"
    /\ result = "ok"
    /\ CallOver
    /\ upc' = "validate"
    /\ UNCHANGED <<runVars, dest, part, checkVars, exeVars>>
    /\ UNCHANGED libVars

\* run(): ValidateUpdate(tempFile) fails; os.Remove(tempFile) follows, and its
\* failure is only logged.
UP_ValidateFails ==
    /\ upc = "validate"
    /\ \E statFails \in BOOLEAN : ValidateUpdate(dest, statFails) # "ok"
    /\ \/ dest' = NoFile /\ UNCHANGED faults
       \/ dest' = dest /\ faults' = faults \cup {"remove_staged"}
    /\ stageErr' = TRUE
    /\ upc' = "launch"
    /\ UNCHANGED <<runVars, ctxVars, reqVars, dpc, body, part, out, closed, bodyOpen, dest0, part0,
                   copyVars, result, checkVars, goos, useToken, hasAsset, live,
                   backup, instResult, instHit, live0, staged0>>
    /\ UNCHANGED libVars

\* run(): ValidateUpdate(tempFile) accepts the staged file.
UP_Validated ==
    /\ upc = "validate"
    /\ ValidateUpdate(dest, FALSE) = "ok"
    /\ upc' = "install"
    /\ UNCHANGED <<runVars, ctxVars, reqVars, dpc, fileVars, copyVars, result, faults, checkVars,
                   exeVars>>
    /\ UNCHANGED libVars

\* Mutant of AfterInstall: run() goes on to the launch after an install.
AfterInstall_GoesOn(res) == "launch"

\* run(), after update.InstallUpdate(tempFile): `return nil` when it succeeded,
\* and on to the launch when it failed.
AfterInstall(res) == IF res = "ok" THEN "restart" ELSE "launch"

\* run(): InstallUpdate(tempFile). On success run() returns nil (restart asked
\* for); on an error it logs, removes tempFile (a failure is only logged) and
\* goes on.
UP_InstallUpdate ==
    /\ upc = "install"
    /\ \E fails \in SUBSET InstallCalls, removeFails \in BOOLEAN :
          LET r == InstallUpdateResult(live, backup, dest, goos, fails)
          IN  /\ live' = r.live
              /\ backup' = r.backup
              /\ instResult' = r.res
              /\ instHit' = r.hit
              /\ upc' = AfterInstall(r.res)
              /\ dest' = IF r.res = "ok" \/ removeFails THEN r.staged ELSE NoFile
              /\ IF upc' = "restart"
                 THEN runResult' = "nil" /\ rpc' = "returned"
                 ELSE UNCHANGED <<rpc, runResult>>
    /\ staged0' = dest
    /\ UNCHANGED <<jars, sidecars, oldJar, latest, jarFile, expected, verdict, asked,
                   buildHas, buildErr, vcall>>
    /\ UNCHANGED <<ctxVars, reqVars, dpc, body, part, out, closed, bodyOpen, dest0, part0,
                   copyVars, result, faults, checkVars, goos, useToken, hasAsset, stageErr,
                   live0>>
    /\ UNCHANGED libVars

\* The executable that runs, and a backup an earlier update may have left.
LiveExe == <<"e">>
PriorBackup == {NoFile, <<"b">>}

\* One run of the self-update sequence of run(); dest is <exe>.new and part is
\* <exe>.new.part.
InitUpdate ==
    /\ DownloadInit("idle")
    /\ upc = "check"
    /\ goos \in {"windows", "linux"}
    /\ useToken \in BOOLEAN
    /\ hasAsset \in BOOLEAN
    /\ launcherVersion = <<"1", ".", "0">>
    /\ gitDescribe = GitFails
    /\ feed \in {"transport", "ok"}
    /\ tag \in {<<"v", "1", ".", "0">>, <<"v", "2", ".", "0">>}
    /\ feed # "ok" => tag = <<"v", "1", ".", "0">>
    /\ CheckIdle
    /\ live = LiveExe
    /\ backup \in PriorBackup
    /\ instResult = "none"
    /\ instHit = {}
    /\ stageErr = FALSE
    /\ live0 = live
    /\ staged0 = NoFile
    /\ RunIdle
    /\ LibIdle

NextUpdate ==
    \/ CheckForUpdate
    \/ UP_CheckFailed
    \/ UP_NoUpdate
    \/ UP_Decide
    \/ UP_DownloadUnavailable
    \/ UP_DownloadShared
    \/ UP_DownloadGitHub
    \/ UP_DownloadFailed
    \/ UP_ChmodFails
    \/ UP_Downloaded
    \/ UP_ValidateFails
    \/ UP_Validated
    \/ UP_InstallUpdate
    \/ DownloadFile
    \/ Copier
    \/ Cancel
    \/ Tick

SpecUpdate == InitUpdate /\ [][NextUpdate]_vars

\* ------------------------------------------------- InstallUpdate, run after run

\* Runs of the launcher that reach InstallUpdate, one after the other.
MaxInstalls == 2

\* What the staged file of a run may hold when InstallUpdate is called.
StagedBuilds == {<<"u">>, <<"w">>}

\* The launcher runs again (restarted after an install, or started later), and
\* its self-update reaches InstallUpdate with a new staged file.
IN_NextRun ==
    /\ upc \in {"restart", "launch"}
    /\ live # NoFile
    /\ installs < MaxInstalls
    /\ installs' = installs + 1
    /\ upc' = "install"
    /\ dest' \in StagedBuilds
    /\ live0' = live
    /\ backup0' = backup
    /\ instResult' = "none"
    /\ instHit' = {}
    /\ staged0' = NoFile
    /\ rpc' = "none"
    /\ runResult' = "none"
    /\ UNCHANGED <<jars, sidecars, oldJar, latest, jarFile, expected, verdict, asked,
                   buildHas, buildErr, vcall>>
    /\ UNCHANGED <<ctxVars, reqVars, dpc, body, part, out, closed, bodyOpen, dest0,
                   part0, copyVars, result, faults, checkVars, goos, useToken, hasAsset,
                   live, backup, stageErr, compared, javaVars, rotVars, callVars>>

InitInstall ==
    /\ DownloadInit("idle")
    /\ urlOK
    /\ part = NoFile
    /\ dest = NoFile
    /\ upc = "launch"
    /\ goos \in {"windows", "linux"}
    /\ useToken = FALSE
    /\ hasAsset = TRUE
    /\ launcherVersion = <<"1", ".", "0">>
    /\ gitDescribe = GitFails
    /\ feed = "ok"
    /\ tag = <<"v", "2", ".", "0">>
    /\ CheckIdle
    /\ live = LiveExe
    /\ backup \in PriorBackup
    /\ instResult = "none"
    /\ instHit = {}
    /\ stageErr = FALSE
    /\ live0 = live
    /\ staged0 = NoFile
    /\ RunIdle
    /\ compared = NoComparison
    /\ installs = 0
    /\ backup0 = backup
    /\ JavaIdle
    /\ RotIdle
    /\ CallIdle

NextInstall ==
    \/ UP_InstallUpdate
    \/ IN_NextRun

SpecInstall == InitInstall /\ [][NextInstall]_vars

\* ------------------------------------------------ package utils: validation

minJarSize == 22
\* The length LoadChecksumFile asks of a checksum: hex of a SHA-256 digest.
DigestLen == 64
\* magic[0] != 0x50 || magic[1] != 0x4B
ZipMagic == <<80, 75>>

HexDigits == <<"0", "1", "2", "3", "4", "5", "6", "7", "8", "9", "a", "b", "c", "d", "e", "f">>
\* (c >= '0' && c <= '9') || (c >= 'a' && c <= 'f') || (c >= 'A' && c <= 'F')
IsHex(c) == (\E d \in 1..16 : HexDigits[d] = c) \/ c \in {"A", "B", "C", "D", "E", "F"}
\* unicode.ToLower, on the characters of the model
ToLower(c) ==
    CASE c = "A" -> "a" [] c = "B" -> "b" [] c = "C" -> "c" [] c = "D" -> "d"
      [] c = "E" -> "e" [] c = "F" -> "f" [] c = "G" -> "g" [] OTHER -> c
\* strings.EqualFold(a, b)
EqualFold(a, b) == Len(a) = Len(b) /\ \A i \in 1..Len(a) : ToLower(a[i]) = ToLower(b[i])

\* hex.EncodeToString(h.Sum(nil)) for the content of id k: DigestLen lower-case
\* hex characters, different for different contents.
Sha256Hex(k) ==
    [i \in 1..DigestLen |-> IF i = 1 THEN HexDigits[(k % 16) + 1]
                            ELSE IF i = 2 THEN HexDigits[((k \div 16) % 6) + 11]
                            ELSE "0"]

\* The calls of the validator that can fail on a file that is there.
ReadCalls == {"stat", "open", "read", "copy"}

\* Mutant of ValidateJarFile: no floor on the size.
ValidateJarFile_NoSizeFloor(f, fails) ==
    IF ~f.exists \/ "stat" \in fails THEN "not_found"
    ELSE IF f.size = 0 THEN "empty"
    ELSE IF "open" \in fails THEN "open"
    ELSE IF "read" \in fails \/ f.size < 2 THEN "read_magic"
    ELSE IF f.head # ZipMagic THEN "bad_magic"
    ELSE IF ~f.dir THEN "corrupt"
    ELSE IF f.entries = 0 THEN "no_entries"
    ELSE "nil"

\* Mutant of ValidateJarFile: the magic number is looked at before the size.
ValidateJarFile_MagicFirst(f, fails) ==
    IF ~f.exists \/ "stat" \in fails THEN "not_found"
    ELSE IF f.head # ZipMagic THEN "bad_magic"
    ELSE IF f.size = 0 THEN "empty"
    ELSE IF f.size < minJarSize THEN "too_small"
    ELSE IF "open" \in fails THEN "open"
    ELSE IF "read" \in fails THEN "read_magic"
    ELSE IF ~f.dir THEN "corrupt"
    ELSE IF f.entries = 0 THEN "no_entries"
    ELSE "nil"

\* ValidateJarFile(jarPath), jarPath holding f, where the calls of fails fail:
\* "nil", or the error.
ValidateJarFile(f, fails) ==
    IF ~f.exists \/ "stat" \in fails THEN "not_found"
    ELSE IF f.size = 0 THEN "empty"
    ELSE IF f.size < minJarSize THEN "too_small"
    ELSE IF "open" \in fails THEN "open"
    ELSE IF "read" \in fails THEN "read_magic"
    ELSE IF f.head # ZipMagic THEN "bad_magic"
    ELSE IF ~f.dir THEN "corrupt"
    ELSE IF f.entries = 0 THEN "no_entries"
    ELSE "nil"

\* ValidateJarAndCalculateChecksum(jarPath): the checksum ("" with an error)
\* and the error.
ValidateJarAndCalculateChecksum(f, fails) ==
    LET E(e) == [checksum |-> <<>>, err |-> e]
    IN  IF ~f.exists \/ "stat" \in fails THEN E("not_found")
        ELSE IF f.size = 0 THEN E("empty")
        ELSE IF f.size < minJarSize THEN E("too_small")
        ELSE IF "open" \in fails THEN E("open")
        ELSE IF "read" \in fails THEN E("read_magic")
        ELSE IF f.head # ZipMagic THEN E("bad_magic")
        ELSE IF ~f.dir THEN E("corrupt")
        ELSE IF f.entries = 0 THEN E("no_entries")
        ELSE IF "copy" \in fails THEN E("checksum")
        ELSE [checksum |-> Sha256Hex(f.id), err |-> "nil"]

\* Mutant of ValidateChecksum: the short-circuit comes after the file was opened.
ValidateChecksum_OpensFirst(f, expectedChecksum, fails) ==
    IF ~f.exists \/ "open" \in fails THEN "open"
    ELSE IF expectedChecksum = <<>> THEN "nil"
    ELSE IF "copy" \in fails THEN "checksum"
    ELSE IF ~EqualFold(Sha256Hex(f.id), TrimSpace(expectedChecksum)) THEN "mismatch"
    ELSE "nil"

\* ValidateChecksum(jarPath, expectedChecksum)
ValidateChecksum(f, expectedChecksum, fails) ==
    IF expectedChecksum = <<>> THEN "nil"
    ELSE IF ~f.exists \/ "open" \in fails THEN "open"
    ELSE IF "copy" \in fails THEN "checksum"
    ELSE LET actual == Sha256Hex(f.id)
             expected_ == TrimSpace(expectedChecksum)
         IN  IF ~EqualFold(actual, expected_) THEN "mismatch" ELSE "nil"

\* Mutant of LoadChecksumFile: the length is not looked at.
LoadChecksumFile_AnyLength(text, readFails) ==
    LET E(e) == [checksum |-> <<>>, err |-> e]
        checksum == TrimSpace(text)
    IN  IF text = NoFile THEN E("nil")
        ELSE IF readFails THEN E("read")
        ELSE IF \E i \in 1..Len(checksum) : ~IsHex(checksum[i]) THEN E("nonhex")
        ELSE [checksum |-> checksum, err |-> "nil"]

\* LoadChecksumFile(path), path holding text
LoadChecksumFile(text, readFails) ==
    LET E(e) == [checksum |-> <<>>, err |-> e]
        checksum == TrimSpace(text)
    IN  IF text = NoFile THEN E("nil")
        ELSE IF readFails THEN E("read")
        ELSE IF Len(checksum) # DigestLen THEN E("length")
        ELSE IF \E i \in 1..Len(checksum) : ~IsHex(checksum[i]) THEN E("nonhex")
        ELSE [checksum |-> checksum, err |-> "nil"]

\* Mutant of WriteFile: the file is not truncated before the write.
WriteFile_NoTruncate(old, data) ==
    IF old # NoFile /\ Len(old) > Len(data)
    THEN data \o SubSeq(old, Len(data) + 1, Len(old))
    ELSE data

\* os.WriteFile(path, data, 0644) on a path holding old
WriteFile(old, data) == data

\* How os.WriteFile can go wrong: the open (O_WRONLY|O_CREATE|O_TRUNC) fails;
\* the write fails after the open has truncated or created the file; the write
\* stops part of the way.
WriteFaults == {"create", "write", "short"}

\* The one of WriteFaults among the calls that fail, or "none".
WriteFault(fails) ==
    IF fails \cap WriteFaults = {} THEN "none"
    ELSE CHOOSE f \in WriteFaults : f \in fails

\* SaveChecksumFile(path, checksum): the file afterwards and the error. A
\* failed open leaves the path as it was; a failed write leaves the file the
\* open has emptied, or a first part of the checksum.
SaveChecksumFile(old, checksum, fault) ==
    IF fault = "create" THEN [text |-> old, err |-> "write"]
    ELSE IF fault = "write" THEN [text |-> <<>>, err |-> "write"]
    ELSE IF fault = "short"
        THEN [text |-> SubSeq(checksum, 1, Len(checksum) \div 2), err |-> "write"]
    ELSE [text |-> WriteFile(old, checksum), err |-> "nil"]

\* ----------------------------------------- package utils: the calls, one by one

\* The files tried as JARs.
Jar(size, head, dir, entries, manifest, id) ==
    [exists |-> TRUE, size |-> size, head |-> head, dir |-> dir, entries |-> entries,
     manifest |-> manifest, id |-> id]
\* A JAR with a manifest, and another build of it.
GoodJar == Jar(300, ZipMagic, TRUE, 2, TRUE, 1)
NewerJar == Jar(320, ZipMagic, TRUE, 2, TRUE, 2)
\* A truncated download: the magic number is there, the directory is not.
TruncatedJar == Jar(200, ZipMagic, FALSE, 0, FALSE, 3)
\* []byte("test content")
TextFile == Jar(12, <<116, 101>>, FALSE, 0, FALSE, 4)

NoVerdict == [res |-> "none", name |-> "", jar |-> NoJar]

\* The call op(arg) returning (checksum, err), recorded after the call before it.
Call(op, arg, fails, checksum, err) ==
    LET keep == vcall.op \in {"SaveChecksumFile", "ValidateJarAndCalculateChecksum"}
    IN  [op |-> op, arg |-> arg, clean |-> fails = {}, checksum |-> checksum, err |-> err,
         prevOp |-> IF keep THEN vcall.op ELSE "other",
         prevArg |-> IF ~keep THEN <<>>
                     ELSE IF vcall.op = "SaveChecksumFile" THEN vcall.arg
                     ELSE vcall.checksum,
         prevErr |-> IF keep THEN vcall.err ELSE "nil",
         fetch |-> "none"]

\* strings.ToUpper, on the characters of the model
ToUpper(c) ==
    CASE c = "a" -> "A" [] c = "b" -> "B" [] c = "c" -> "C" [] c = "d" -> "D"
      [] c = "e" -> "E" [] c = "f" -> "F" [] OTHER -> c
Upper(d) == [i \in 1..Len(d) |-> ToUpper(d[i])]

\* More files tried as JARs: no byte; five zero bytes; five bytes that begin
\* with the magic number; 22 bytes that are an archive without entries; 22 bytes
\* that are nothing; an archive with an entry and no manifest; an archive behind
\* a prefix (the directory is found from the end of the file).
EmptyFile == Jar(0, <<>>, FALSE, 0, FALSE, 5)
FiveZeroBytes == Jar(5, <<0, 0>>, FALSE, 0, FALSE, 6)
FiveBytesPK == Jar(5, ZipMagic, FALSE, 0, FALSE, 7)
EmptyArchive == Jar(22, ZipMagic, TRUE, 0, FALSE, 8)
Garbage22 == Jar(22, <<0, 0>>, FALSE, 0, FALSE, 9)
NoManifestJar == Jar(250, ZipMagic, TRUE, 1, FALSE, 10)
PrefixedArchive == Jar(400, <<77, 90>>, TRUE, 1, FALSE, 11)
JarFiles ==
    {NoJar, GoodJar, NewerJar, TruncatedJar, TextFile, EmptyFile, FiveZeroBytes,
     FiveBytesPK, EmptyArchive, Garbage22, NoManifestJar, PrefixedArchive}

\* What a sidecar may hold: nothing; a digest, in lower case, in upper case, or
\* between white space; one character less, one more; a character that is not
\* hexadecimal; no byte.
GoodDigest == Sha256Hex(GoodJar.id)
SidecarTexts ==
    {NoFile, GoodDigest, Upper(GoodDigest), <<" ">> \o GoodDigest \o <<"\n">>,
     SubSeq(GoodDigest, 1, DigestLen - 1), GoodDigest \o <<"0">>,
     [GoodDigest EXCEPT ![DigestLen] = "g"], <<>>, Sha256Hex(NewerJar.id)}
\* The checksums a caller passes to ValidateChecksum and to SaveChecksumFile.
ExpectedArgs ==
    {<<>>, GoodDigest, Upper(GoodDigest), Sha256Hex(NewerJar.id), GoodDigest \o <<"\n">>}
SaveArgs == {GoodDigest, Upper(GoodDigest), Sha256Hex(NewerJar.id)}
\* The failures tried in one call: none, or one call of the operating system.
OneOf(calls) == {{}} \cup {{c} : c \in calls}

\* A call into package utils leaves the rest alone.
JarFrame ==
    /\ UNCHANGED <<ctxVars, reqVars, dpc, fileVars, copyVars, result, faults, upc,
                   checkVars, exeVars>>
    /\ UNCHANGED <<rpc, oldJar, latest, jarFile, expected, verdict, asked, buildHas,
                   buildErr, runResult>>
    /\ UNCHANGED libVars

\* ValidateJarFile(jarPath)
VJ_ValidateJarFile ==
    /\ \E fails \in OneOf({"stat", "open", "read"}) :
          vcall' = Call("ValidateJarFile", <<>>, fails, <<>>,
                        ValidateJarFile(jars["found"], fails))
    /\ UNCHANGED <<jars, sidecars>>
    /\ JarFrame

\* ValidateJarAndCalculateChecksum(jarPath)
VJ_ValidateJarAndCalculateChecksum ==
    /\ \E fails \in OneOf({"open", "copy"}) :
          LET r == ValidateJarAndCalculateChecksum(jars["found"], fails)
          IN  vcall' = Call("ValidateJarAndCalculateChecksum", <<>>, fails, r.checksum, r.err)
    /\ UNCHANGED <<jars, sidecars>>
    /\ JarFrame

\* ValidateChecksum(jarPath, expectedChecksum), with a checksum of the caller's
\* or the one ValidateJarAndCalculateChecksum has just returned.
VJ_ValidateChecksum ==
    /\ \E e \in ExpectedArgs \cup {vcall.checksum}, fails \in OneOf({"open", "copy"}) :
          vcall' = Call("ValidateChecksum", e, fails, <<>>,
                        ValidateChecksum(jars["found"], e, fails))
    /\ UNCHANGED <<jars, sidecars>>
    /\ JarFrame

\* LoadChecksumFile(path)
VJ_LoadChecksumFile ==
    /\ \E readFails \in BOOLEAN :
          LET r == LoadChecksumFile(sidecars["found"], readFails)
          IN  vcall' = Call("LoadChecksumFile", <<>>, IF readFails THEN {"read"} ELSE {},
                            r.checksum, r.err)
    /\ UNCHANGED <<jars, sidecars>>
    /\ JarFrame

\* SaveChecksumFile(path, checksum)
VJ_SaveChecksumFile ==
    /\ \E d \in SaveArgs, fault \in WriteFaults \cup {"none"} :
          LET r == SaveChecksumFile(sidecars["found"], d, fault)
          IN  /\ sidecars' = [sidecars EXCEPT !["found"] = r.text]
              /\ vcall' = Call("SaveChecksumFile", d, IF fault = "none" THEN {} ELSE {fault},
                               <<>>, r.err)
    /\ UNCHANGED jars
    /\ JarFrame

\* A JAR path and its sidecar path (every JAR without a sidecar, every sidecar
\* beside a good JAR), and calls into package utils on them.
InitJar ==
    /\ DownloadInit("idle")
    /\ urlOK
    /\ dest = NoFile
    /\ part = NoFile
    /\ UpdateIdle
    /\ rpc = "none"
    /\ \E j \in JarFiles, c \in SidecarTexts :
          /\ j = GoodJar \/ c = NoFile
          /\ jars = [n \in JarNames |-> IF n = "found" THEN j ELSE NoJar]
          /\ sidecars = [n \in JarNames |-> IF n = "found" THEN c ELSE NoFile]
    /\ oldJar = NoJar
    /\ latest = "latest"
    /\ jarFile = ""
    /\ expected = <<>>
    /\ verdict = NoVerdict
    /\ asked = FALSE
    /\ buildHas = FALSE
    /\ buildErr = "nil"
    /\ runResult = "none"
    /\ vcall = NoCall
    /\ LibIdle

NextJar ==
    \/ VJ_ValidateJarFile
    \/ VJ_ValidateJarAndCalculateChecksum
    \/ VJ_ValidateChecksum
    \/ VJ_LoadChecksumFile
    \/ VJ_SaveChecksumFile

SpecJar == InitJar /\ [][NextJar]_vars

\* --------------------------------------------------------- package download

\* download.CheckUpdate(jarName): hasUpdate and err. nameOK: jarName matches
\* paper-(.+)-(\d+)\.jar with a build number strconv.Atoi takes; builds: what
\* getLatestBuild came back with; newer: latestBuild > currentBuild; nameFeedOK:
\* getJarName succeeds.
CheckUpdateResult(nameOK, builds, newer, nameFeedOK) ==
    IF ~nameOK THEN [has |-> FALSE, err |-> "format"]
    ELSE IF builds # "ok" THEN [has |-> FALSE, err |-> builds]
    ELSE IF newer
        THEN IF ~nameFeedOK THEN [has |-> TRUE, err |-> "jar_name"]
             ELSE [has |-> TRUE, err |-> "nil"]
    ELSE [has |-> FALSE, err |-> "nil"]

BuildFeeds == {"ok", "transport", "status"}

\* How utils.DownloadFile(ctx, url, jarName) can end: the new file is in place;
\* it failed with jarName as it was; it failed after jarName was removed.
FetchOutcomes == {"ok", "failed", "lost"}

\* Mutant of DownloadJarResult: a JAR that is there is returned unchecked.
\* os.Stat(jarName) returns no error: the file is there and the call does not
\* fail ("stat": every os.Stat of the path fails; "stat_jar": this one only).
StatOK(f, fails) == f.exists /\ fails \cap {"stat", "stat_jar"} = {}

DownloadJarResult_ReuseUnchecked(js, sc, name, feedOK, fetch, fetched, fails) ==
    LET R(j, c, n, e, f) == [jars |-> j, sidecars |-> c, name |-> n, err |-> e, fetch |-> f]
        v == ValidateJarAndCalculateChecksum(fetched, fails)
        saved == SaveChecksumFile(sc[name], v.checksum, WriteFault(fails))
    IN  IF ~feedOK THEN R(js, sc, "", "feed", "none")
        ELSE IF StatOK(js[name], fails) THEN R(js, sc, name, "nil", "none")
        ELSE IF fetch = "failed" THEN R(js, sc, "", "download", fetch)
        ELSE IF fetch = "lost" THEN R([js EXCEPT ![name] = NoJar], sc, "", "download", fetch)
        ELSE IF v.err # "nil" THEN R([js EXCEPT ![name] = fetched], sc, "", "validation", fetch)
        ELSE IF saved.err # "nil"
            THEN R([js EXCEPT ![name] = fetched], [sc EXCEPT ![name] = saved.text], "", "save",
                   fetch)
        ELSE R([js EXCEPT ![name] = fetched], [sc EXCEPT ![name] = saved.text], name, "nil", fetch)

\* Mutant of DownloadJarResult: a sidecar that loads is not compared.
DownloadJarResult_AnyDigest(js, sc, name, feedOK, fetch, fetched, fails) ==
    LET R(j, c, n, e, f) == [jars |-> j, sidecars |-> c, name |-> n, err |-> e, fetch |-> f]
        loaded == LoadChecksumFile(sc[name], "read" \in fails)
        reuse == /\ StatOK(js[name], fails)
                 /\ loaded.err = "nil"
                 /\ loaded.checksum # <<>>
        v == ValidateJarAndCalculateChecksum(fetched, fails)
        saved == SaveChecksumFile(sc[name], v.checksum, WriteFault(fails))
    IN  IF ~feedOK THEN R(js, sc, "", "feed", "none")
        ELSE IF reuse THEN R(js, sc, name, "nil", "none")
        ELSE IF fetch = "failed" THEN R(js, sc, "", "download", fetch)
        ELSE IF fetch = "lost" THEN R([js EXCEPT ![name] = NoJar], sc, "", "download", fetch)
        ELSE IF v.err # "nil" THEN R([js EXCEPT ![name] = fetched], sc, "", "validation", fetch)
        ELSE IF saved.err # "nil"
            THEN R([js EXCEPT ![name] = fetched], [sc EXCEPT ![name] = saved.text], "", "save",
                   fetch)
        ELSE R([js EXCEPT ![name] = fetched], [sc EXCEPT ![name] = saved.text], name, "nil", fetch)

\* download.DownloadJar(version), the feed naming the JAR name: the JARs and
\* sidecars afterwards, the name returned ("" with an error) and the error.
DownloadJarResult(js, sc, name, feedOK, fetch, fetched, fails) ==
    LET R(j, c, n, e, f) == [jars |-> j, sidecars |-> c, name |-> n, err |-> e, fetch |-> f]
        loaded == LoadChecksumFile(sc[name], "read" \in fails)
        reuse == /\ StatOK(js[name], fails)
                 /\ loaded.err = "nil"
                 /\ loaded.checksum # <<>>
                 /\ ValidateChecksum(js[name], loaded.checksum, fails) = "nil"
        v == ValidateJarAndCalculateChecksum(fetched, fails)
        saved == SaveChecksumFile(sc[name], v.checksum, WriteFault(fails))
    IN  IF ~feedOK THEN R(js, sc, "", "feed", "none")
        ELSE IF reuse THEN R(js, sc, name, "nil", "none")
        ELSE IF fetch = "failed" THEN R(js, sc, "", "download", fetch)
        ELSE IF fetch = "lost" THEN R([js EXCEPT ![name] = NoJar], sc, "", "download", fetch)
        ELSE IF v.err # "nil" THEN R([js EXCEPT ![name] = fetched], sc, "", "validation", fetch)
        ELSE IF saved.err # "nil"
            THEN R([js EXCEPT ![name] = fetched], [sc EXCEPT ![name] = saved.text], "", "save",
                   fetch)
        ELSE R([js EXCEPT ![name] = fetched], [sc EXCEPT ![name] = saved.text], name, "nil", fetch)

\* The calls of the operating system that can fail inside DownloadJar.
DownloadJarFaults == {"stat", "stat_jar", "open", "read", "copy"} \cup WriteFaults

\* DownloadJar(ctx, version), called by itself: the feed names a JAR path that
\* holds a file or none, and the download brings one of the fetched files.
DJ_DownloadJar ==
    /\ vcall.op = "none"
    /\ \E name \in JarNames, feedOK \in BOOLEAN, fetch \in FetchOutcomes,
          fetched \in {GoodJar, NewerJar, TruncatedJar},
          fails \in OneOf(DownloadJarFaults) :
          LET r == DownloadJarResult(jars, sidecars, name, feedOK, fetch, fetched, fails)
          IN  /\ jars' = r.jars
              /\ sidecars' = r.sidecars
              /\ vcall' = [Call("DownloadJar", name, fails, <<>>, r.err)
                            EXCEPT !.fetch = r.fetch]
    /\ JarFrame

NextDownloadJar == DJ_DownloadJar

SpecDownloadJar == InitJar /\ [][NextDownloadJar]_vars

\* ------------------------------------------------- run(): the managed JAR

\* run(): the self-update block (lines 171-221) is over and run() has not
\* returned from it.
SelfUpdateOver_AfterCheck(u) == u \in {"launch", "checked"}

SelfUpdateOver(u) == u = "launch"

\* run(): `if err != nil { log } else if hasUpdate {`, after download.CheckUpdate
UpdateOffered_IgnoresErr(has, err) == has

UpdateOffered(has, err) == err = "nil" /\ has

\* run() returns err.
RunReturns(err) ==
    /\ runResult' = err
    /\ rpc' = "returned"

\* utils.FindJarFile(): the JAR of the working directory, "" when there is none.
FindJarFile(js) == IF js["found"].exists THEN "found" ELSE ""

\* What the verification of the JAR held in jarFile said.
Verdict(res) == [res |-> res, name |-> jarFile, jar |-> jars[jarFile]]

\* run(), lines 271-274: utils.FindJarFile() fails.
RN_FindJarFails ==
    /\ rpc = "find"
    /\ RunReturns("find_jar")
    /\ UNCHANGED <<jars, sidecars, oldJar, latest, jarFile, expected, verdict, asked,
                   buildHas, buildErr, vcall>>
    /\ UNCHANGED <<ctxVars, reqVars, dpc, fileVars, copyVars, result, faults, upc,
                   checkVars, exeVars>>
    /\ UNCHANGED libVars

\* run(), lines 271-287: a JAR is found.
RN_Found ==
    /\ rpc = "find"
    /\ FindJarFile(jars) # ""
    /\ jarFile' = FindJarFile(jars)
    /\ rpc' = "load"
    /\ UNCHANGED <<jars, sidecars, oldJar, latest, expected, verdict, asked, buildHas,
                   buildErr, runResult, vcall>>
    /\ UNCHANGED <<ctxVars, reqVars, dpc, fileVars, copyVars, result, faults, upc,
                   checkVars, exeVars>>
    /\ UNCHANGED libVars

\* run(), lines 276-285: no JAR; the user is asked, and DownloadJar called.
RN_NoJar ==
    /\ rpc = "find"
    /\ FindJarFile(jars) = ""
    /\ \E yes \in BOOLEAN, feedOK \in BOOLEAN, fetch \in FetchOutcomes,
          fetched \in {NewerJar, TruncatedJar}, fails \in OneOf(DownloadJarFaults) :
          LET r == DownloadJarResult(jars, sidecars, latest, feedOK, fetch, fetched, fails)
          IN  IF ~yes
              THEN RunReturns("no_jar") /\ UNCHANGED <<jars, sidecars, jarFile>>
              ELSE /\ jars' = r.jars
                   /\ sidecars' = r.sidecars
                   /\ IF r.err # "nil"
                      THEN RunReturns(r.err) /\ UNCHANGED jarFile
                      ELSE jarFile' = r.name /\ rpc' = "backup" /\ UNCHANGED runResult
    /\ UNCHANGED <<oldJar, latest, expected, verdict, asked, buildHas, buildErr, vcall>>
    /\ UNCHANGED <<ctxVars, reqVars, dpc, fileVars, copyVars, result, faults, upc,
                   checkVars, exeVars>>
    /\ UNCHANGED libVars

\* run(), lines 289-295: utils.LoadChecksumFile(checksumFile); an error is
\* only logged.
RN_LoadChecksum ==
    /\ rpc = "load"
    /\ \E readFails \in BOOLEAN :
          expected' = LoadChecksumFile(sidecars[jarFile], readFails).checksum
    /\ rpc' = IF expected' # <<>> THEN "verify" ELSE "structure"
    /\ UNCHANGED <<jars, sidecars, oldJar, latest, jarFile, verdict, asked, buildHas,
                   buildErr, runResult, vcall>>
    /\ UNCHANGED <<ctxVars, reqVars, dpc, fileVars, copyVars, result, faults, upc,
                   checkVars, exeVars>>
    /\ UNCHANGED libVars

\* run(), lines 296-309: utils.ValidateChecksum(jarFile, expectedChecksum); on
\* an error the user is asked whether to download the JAR again.
RN_ValidateChecksum ==
    /\ rpc = "verify"
    /\ \E fails \in SUBSET {"open", "copy"}, yes \in BOOLEAN, feedOK \in BOOLEAN,
          fetch \in FetchOutcomes, fetched \in {NewerJar, TruncatedJar},
          jarFails \in OneOf(DownloadJarFaults) :
          LET e == ValidateChecksum(jars[jarFile], expected, fails)
              r == DownloadJarResult(jars, sidecars, latest, feedOK, fetch, fetched, jarFails)
          IN  IF e = "nil"
              THEN /\ verdict' = Verdict("ok")
                   /\ rpc' = "check_update"
                   /\ UNCHANGED <<jars, sidecars, jarFile, asked, runResult>>
              ELSE /\ verdict' = Verdict("failed")
                   /\ asked' = TRUE
                   /\ IF ~yes
                      THEN /\ rpc' = "check_update"
                           /\ UNCHANGED <<jars, sidecars, jarFile, runResult>>
                      ELSE /\ jars' = r.jars
                           /\ sidecars' = r.sidecars
                           /\ IF r.err # "nil"
                              THEN RunReturns("redownload") /\ UNCHANGED jarFile
                              ELSE /\ jarFile' = r.name
                                   /\ rpc' = "check_update"
                                   /\ UNCHANGED runResult
    /\ UNCHANGED <<oldJar, latest, expected, buildHas, buildErr, vcall>>
    /\ UNCHANGED <<ctxVars, reqVars, dpc, fileVars, copyVars, result, faults, upc,
                   checkVars, exeVars>>
    /\ UNCHANGED libVars

\* run(), lines 310-321: no checksum to compare with:
\* utils.ValidateJarAndCalculateChecksum(jarFile), then utils.SaveChecksumFile;
\* their errors are only logged.
RN_ValidateStructure ==
    /\ rpc = "structure"
    /\ \E fails \in SUBSET {"open", "copy"}, fault \in WriteFaults \cup {"none"} :
          LET v == ValidateJarAndCalculateChecksum(jars[jarFile], fails)
              saved == SaveChecksumFile(sidecars[jarFile], v.checksum, fault)
          IN  IF v.err # "nil"
              THEN verdict' = Verdict("failed") /\ UNCHANGED sidecars
              ELSE /\ verdict' = Verdict("ok")
                   /\ sidecars' = [sidecars EXCEPT ![jarFile] = saved.text]
    /\ rpc' = "check_update"
    /\ UNCHANGED <<jars, oldJar, latest, jarFile, expected, asked, buildHas, buildErr,
                   runResult, vcall>>
    /\ UNCHANGED <<ctxVars, reqVars, dpc, fileVars, copyVars, result, faults, upc,
                   checkVars, exeVars>>
    /\ UNCHANGED libVars

\* run(), lines 323-326: download.CheckUpdate(jarFile); an error is only logged.
RN_CheckUpdate ==
    /\ rpc = "check_update"
    /\ \E nameOK \in BOOLEAN, builds \in BuildFeeds, nameFeedOK \in BOOLEAN :
          LET r == CheckUpdateResult(nameOK, builds, latest # jarFile, nameFeedOK)
          IN  /\ buildHas' = r.has
              /\ buildErr' = r.err
              /\ rpc' = IF UpdateOffered(r.has, r.err) THEN "update" ELSE "backup"
    /\ UNCHANGED <<jars, sidecars, oldJar, latest, jarFile, expected, verdict, asked,
                   runResult, vcall>>
    /\ UNCHANGED <<ctxVars, reqVars, dpc, fileVars, copyVars, result, faults, upc,
                   checkVars, exeVars>>
    /\ UNCHANGED libVars

\* os.Rename(jarFile, jarFile + ".old"): the JARs and the .old file afterwards.
RenameToOld(js, name, old, renameFails) ==
    IF renameFails THEN [jars |-> js, old |-> old]
    ELSE [jars |-> [js EXCEPT ![name] = NoJar], old |-> js[name]]

\* run(), lines 327-357: the update of the JAR, if cfg.AutoUpdate or the user
\* says so: the JAR is renamed to <jar>.old (a failure is passed over),
\* DownloadJar called, and on its error <jar>.old renamed back if it is there.
RN_UpdateJar ==
    /\ rpc = "update"
    /\ \E doUpdate \in BOOLEAN, renameFails \in BOOLEAN, restoreFails \in BOOLEAN,
          feedOK \in BOOLEAN, fetch \in FetchOutcomes, fetched \in {NewerJar, TruncatedJar},
          jarFails \in OneOf(DownloadJarFaults) :
          LET moved == RenameToOld(jars, jarFile, oldJar, renameFails)
              js1 == moved.jars
              old1 == moved.old
              r == DownloadJarResult(js1, sidecars, latest, feedOK, fetch, fetched, jarFails)
              back == old1.exists /\ ~restoreFails
          IN  IF ~doUpdate
              THEN rpc' = "backup" /\ UNCHANGED <<jars, sidecars, oldJar, jarFile, runResult>>
              ELSE IF r.err # "nil"
              THEN /\ jars' = IF back THEN [r.jars EXCEPT ![jarFile] = old1] ELSE r.jars
                   /\ oldJar' = IF back THEN NoJar ELSE old1
                   /\ sidecars' = r.sidecars
                   /\ RunReturns("update")
                   /\ UNCHANGED jarFile
              ELSE /\ jars' = r.jars
                   /\ sidecars' = r.sidecars
                   /\ oldJar' = old1
                   /\ jarFile' = r.name
                   /\ rpc' = "backup"
                   /\ UNCHANGED runResult
    /\ UNCHANGED <<latest, expected, verdict, asked, buildHas, buildErr, vcall>>
    /\ UNCHANGED <<ctxVars, reqVars, dpc, fileVars, copyVars, result, faults, upc,
                   checkVars, exeVars>>
    /\ UNCHANGED libVars

\* run(), line 379: return server.RunServer(jarFile, ...)
RN_RunServer ==
    /\ rpc = "run_server"
    /\ \E e \in {"nil", "server"} : RunReturns(e)
    /\ UNCHANGED <<jars, sidecars, oldJar, latest, jarFile, expected, verdict, asked,
                   buildHas, buildErr, vcall>>
    /\ UNCHANGED <<ctxVars, reqVars, dpc, fileVars, copyVars, result, faults, upc,
                   checkVars, exeVars>>
    /\ UNCHANGED libVars

\* What the working directory may hold when run() starts.
RunJars == {NoJar, GoodJar, TruncatedJar}
RunSidecars == {NoFile, Sha256Hex(GoodJar.id), <<"n", "o", "n", "e">>}

\* One run of run(), with a GitHub token configured.
InitRun ==
    /\ DownloadInit("idle")
    /\ urlOK
    /\ dest = NoFile
    /\ part = NoFile
    /\ upc = "check"
    /\ goos = "linux"
    /\ useToken = TRUE
    /\ hasAsset \in BOOLEAN
    /\ launcherVersion = <<"1", ".", "0">>
    /\ gitDescribe = GitFails
    /\ feed \in {"transport", "status", "badjson", "ok"}
    /\ tag \in {<<"v", "1", ".", "0">>, <<"v", "2", ".", "0">>}
    /\ feed # "ok" => tag = <<"v", "1", ".", "0">>
    /\ CheckIdle
    /\ live = LiveExe
    /\ backup = NoFile
    /\ instResult = "none"
    /\ instHit = {}
    /\ stageErr = FALSE
    /\ live0 = live
    /\ staged0 = NoFile
    /\ rpc = "none"
    /\ \E j \in RunJars, c \in RunSidecars :
          /\ jars = [n \in JarNames |-> IF n = "found" THEN j ELSE NoJar]
          /\ sidecars = [n \in JarNames |-> IF n = "found" /\ j.exists THEN c ELSE NoFile]
    /\ oldJar = NoJar
    /\ latest \in JarNames
    /\ jarFile = ""
    /\ expected = <<>>
    /\ verdict = NoVerdict
    /\ asked = FALSE
    /\ buildHas = FALSE
    /\ buildErr = "nil"
    /\ runResult = "none"
    /\ vcall = NoCall
    /\ LibIdle

\* ------------------------------ run(), lines 223-269: the Java check, step by step

minJavaVersion == 17

\* What server.CheckJava(javaPath) returns.
JavaOutcomes ==
    { [version |-> "17.0.1", versionNum |-> minJavaVersion, err |-> "nil"],
      [version |-> "", versionNum |-> 0, err |-> "not_found"],
      [version |-> "", versionNum |-> 0, err |-> "unknown"],
      [version |-> "", versionNum |-> 0, err |-> "parse"],
      [version |-> "", versionNum |-> 0, err |-> "too_old"] }

\* What server.GetSystemRAM() returns.
RamOutcomes ==
    { [total |-> 0, avail |-> 0, err |-> "memory"],
      [total |-> 8, avail |-> 2, err |-> "nil"] }

JavaFrame ==
    /\ UNCHANGED <<ctxVars, reqVars, dpc, fileVars, copyVars, result, faults, upc,
                   checkVars, exeVars>>
    /\ UNCHANGED <<jars, sidecars, oldJar, latest, jarFile, expected, verdict, asked,
                   buildHas, buildErr, vcall, compared, installs, backup0, rotVars, callVars>>

\* Lines 223-252: the flags, os.Chdir, make(chan javaCheckResult, 1) and the
\* go statement.
JV_Start ==
    /\ SelfUpdateOver(upc)
    /\ rpc = "none"
    /\ \E chdirFails \in BOOLEAN :
          IF chdirFails
          THEN RunReturns("chdir") /\ UNCHANGED jpc
          ELSE rpc' = "ram" /\ jpc' = "checking" /\ UNCHANGED runResult
    /\ UNCHANGED <<jres, javaChan, javaRes, ramRes>>
    /\ JavaFrame

\* The goroutine: ver, verNum, err := server.CheckJava(javaPath)
JV_CheckJava ==
    /\ jpc = "checking"
    /\ jres' \in JavaOutcomes
    /\ jpc' = "send"
    /\ UNCHANGED <<rpc, runResult, javaChan, javaRes, ramRes>>
    /\ JavaFrame

\* The goroutine: javaChan <- javaCheckResult{...}; the send waits while the
\* buffer is full.
JV_Send ==
    /\ jpc = "send"
    /\ Len(javaChan) < 1
    /\ javaChan' = Append(javaChan, jres)
    /\ jpc' = "done"
    /\ UNCHANGED <<rpc, runResult, jres, javaRes, ramRes>>
    /\ JavaFrame

\* run(): totalRAM, availableRAM, err := server.GetSystemRAM(); an error is
\* only logged.
JV_GetSystemRAM ==
    /\ rpc = "ram"
    /\ ramRes' \in RamOutcomes
    /\ rpc' = "join"
    /\ UNCHANGED <<runResult, jpc, jres, javaChan, javaRes>>
    /\ JavaFrame

\* Mutant of JoinReady: the receive does not wait.
JoinReady_NoWait(ch) == TRUE

\* javaRes := <-javaChan can go on: the channel holds a value.
JoinReady(ch) == Len(ch) > 0

\* run(): javaRes := <-javaChan; if javaRes.err != nil { return javaRes.err }
JV_Join ==
    /\ rpc = "join"
    /\ JoinReady(javaChan)
    /\ javaRes' = IF javaChan # <<>> THEN Head(javaChan)
                  ELSE [NoJavaResult EXCEPT !.err = "nil"]
    /\ javaChan' = IF javaChan # <<>> THEN Tail(javaChan) ELSE javaChan
    /\ IF javaRes'.err # "nil"
       THEN RunReturns("java")
       ELSE rpc' = "eula" /\ UNCHANGED runResult
    /\ UNCHANGED <<jpc, jres, ramRes>>
    /\ JavaFrame

\* run(): utils.HandleEULA(), and on to utils.FindJarFile()
JV_HandleEULA ==
    /\ rpc = "eula"
    /\ \E eulaFails \in BOOLEAN :
          IF eulaFails THEN RunReturns("eula") ELSE rpc' = "find" /\ UNCHANGED runResult
    /\ UNCHANGED javaVars
    /\ JavaFrame

\* run() at line 223, the self-update over, in any working directory.
InitJava ==
    /\ DownloadInit("idle")
    /\ urlOK
    /\ dest = NoFile
    /\ part = NoFile
    /\ upc = "launch"
    /\ goos = "linux"
    /\ useToken = FALSE
    /\ hasAsset = FALSE
    /\ launcherVersion = <<"1", ".", "0">>
    /\ gitDescribe = GitFails
    /\ feed = "ok"
    /\ tag = <<"v", "1", ".", "0">>
    /\ CheckIdle
    /\ live = LiveExe
    /\ backup = NoFile
    /\ instResult = "none"
    /\ instHit = {}
    /\ stageErr = FALSE
    /\ live0 = live
    /\ staged0 = NoFile
    /\ rpc = "none"
    /\ \E j \in RunJars, c \in RunSidecars :
          /\ jars = [n \in JarNames |-> IF n = "found" THEN j ELSE NoJar]
          /\ sidecars = [n \in JarNames |-> IF n = "found" /\ j.exists THEN c ELSE NoFile]
    /\ oldJar = NoJar
    /\ latest = "latest"
    /\ jarFile = ""
    /\ expected = <<>>
    /\ verdict = NoVerdict
    /\ asked = FALSE
    /\ buildHas = FALSE
    /\ buildErr = "nil"
    /\ runResult = "none"
    /\ vcall = NoCall
    /\ LibIdle

NextJava ==
    \/ JV_Start
    \/ JV_CheckJava
    \/ JV_Send
    \/ JV_GetSystemRAM
    \/ JV_Join
    \/ JV_HandleEULA

SpecJava == InitJava /\ [][NextJava]_vars

\* ---------------------------------- package backup: PerformBackup, rotateBackups

\* Entries of BackupDir, and the modification times they may have.
MaxBackups == 3
MaxModTime == 2

\* An entry of BackupDir: kind "backup" is a file named backup-*.zip, kind "other"
\* is a directory or an entry of another name.
DirEntries == [name : 1..MaxBackups, mod : 1..MaxModTime, kind : {"backup", "other"}]

\* The directories BackupDir may be: each name is absent (mod 0) or there
\* with a modification time and a kind.
BackupDirs ==
    LET Slots == [1..MaxBackups -> [mod : 0..MaxModTime, kind : {"backup", "other"}]]
    IN  { {f \in DirEntries : c[f.name].mod = f.mod /\ c[f.name].kind = f.kind} : c \in Slots }

\* The loop over files: the backups whose file.Info() could be read.
Counted(dir, unreadable) ==
    {f \in dir : f.kind = "backup" /\ f.name \notin unreadable}

\* Mutant of OldestSets: the newest are taken.
OldestSets_Newest(S, k) ==
    {D \in SUBSET S : Cardinality(D) = k /\ \A d \in D, r \in S \ D : d.mod >= r.mod}

\* sort.Slice by modTime.Before and the first k of the result: sort.Slice is
\* not stable, so among backups of one modification time any may come first.
OldestSets(S, k) ==
    {D \in SUBSET S : Cardinality(D) = k /\ \A d \in D, r \in S \ D : d.mod <= r.mod}

\* What one call of rotateBackups left behind.
Rotated(limit, o) ==
    [limit |-> limit, called |-> TRUE, result |-> o.result, deleted |-> o.deleted,
     unreadable |-> o.unreadable]

\* rotateBackups(limit) on the directory dir: the directories it may leave, with
\* what it returned, what it deleted and the backups whose file.Info() failed.
\* os.ReadDir may fail; os.Remove may fail at any of the deletions, those before
\* it done.
rotateBackups(dir, limit) ==
    LET O(d, res, del, u) == [dir |-> d, result |-> res, deleted |-> del, unreadable |-> u]
        Loop(u) ==
            LET backups == Counted(dir, u)
                toDelete == Cardinality(backups) - limit
            IN  IF Cardinality(backups) <= limit
                THEN {O(dir, "nil", {}, u)}
                ELSE UNION { {O(dir \ D, "nil", D, u)}
                             \cup {O(dir \ P, "remove", P, u) :
                                     P \in UNION {OldestSets(D, k) : k \in 0..(toDelete - 1)}} :
                             D \in OldestSets(backups, toDelete) }
    IN  IF limit <= 0
        THEN {O(dir, "nil", {}, {})}
        ELSE {O(dir, "read_dir", {}, {})}
             \cup UNION {Loop(u) : u \in OneOf({f.name : f \in Counted(dir, {})})}

\* One call of rotateBackups(limit) on BackupDir.
RB_rotateBackups ==
    /\ ~rot.called
    /\ \E o \in rotateBackups(backupDir, rot.limit) :
          /\ rot' = Rotated(rot.limit, o)
          /\ backupDir' = o.dir
    /\ UNCHANGED <<ctxVars, reqVars, dpc, fileVars, copyVars, result, faults, upc,
                   checkVars, exeVars, runVars, compared, installs, backup0, javaVars, callVars>>

\* The calls of PerformBackup that may fail: os.MkdirAll, os.WriteFile and
\* os.Remove of the test file, os.Create of the archive, the walk of a world.
BackupFaults == {"mkdir", "write_test", "remove_test", "create", "walk"}

\* backups/.write-test, written at time mod.
WriteTest(mod) == [name |-> 0, mod |-> mod, kind |-> "other"]

\* backups/backup-<timestamp>.zip: the name the clock gives and the time of the
\* write.
NewZips == [name : 1..MaxBackups, mod : 1..MaxModTime, kind : {"backup"}]

\* backup.PerformBackup(worlds, retentionCount) on the directory dir, r0 the
\* rotation known before: hasWorlds is len(existingWorlds) > 0, zip the archive
\* createZip writes. An entry of the archive's name that is no backup is a
\* directory, and os.Create fails on it; a backup of that name is overwritten.
\* createZip leaves the file it created when the walk fails. An error of
\* rotateBackups is only logged.
PerformBackup(dir, r0, hasWorlds, retentionCount, zip, fails) ==
    LET Out(d, err, r) == [dir |-> d, err |-> err, rot |-> r]
        tested == {f \in dir : f.name # 0}
                  \cup (IF "remove_test" \in fails THEN {WriteTest(zip.mod)} ELSE {})
        isDir == \E f \in dir : f.name = zip.name /\ f.kind = "other"
        written == {f \in tested : f.name # zip.name} \cup {zip}
    IN  IF fails \cap {"mkdir", "write_test"} # {}
        THEN {Out(dir, "backup", r0)}
        ELSE IF ~hasWorlds
        THEN {Out(tested, "nil", r0)}
        ELSE IF "create" \in fails \/ isDir
        THEN {Out(tested, "backup", r0)}
        ELSE IF "walk" \in fails
        THEN {Out(written, "backup", r0)}
        ELSE {Out(o.dir, "nil", Rotated(retentionCount, o)) :
                 o \in rotateBackups(written, retentionCount)}

\* One call of backup.PerformBackup(worlds, limit) on BackupDir.
BK_PerformBackup ==
    /\ ~rot.called
    /\ \E hasWorlds \in BOOLEAN, zip \in NewZips, fails \in OneOf(BackupFaults) :
          \E o \in PerformBackup(backupDir, rot, hasWorlds, rot.limit, zip, fails) :
             /\ backupDir' = o.dir
             /\ rot' = o.rot
    /\ UNCHANGED <<ctxVars, reqVars, dpc, fileVars, copyVars, result, faults, upc,
                   checkVars, exeVars, runVars, compared, installs, backup0, javaVars, callVars>>

InitRotate ==
    /\ DownloadInit("idle")
    /\ urlOK
    /\ dest = NoFile
    /\ part = NoFile
    /\ UpdateIdle
    /\ RunIdle
    /\ compared = NoComparison
    /\ installs = 0
    /\ backup0 = NoFile
    /\ JavaIdle
    /\ CallIdle
    /\ backupDir \in BackupDirs
    /\ \E limit \in 0..MaxBackups : rot = [NoRotation EXCEPT !.limit = limit]

NextRotate == RB_rotateBackups \/ BK_PerformBackup

SpecRotate == InitRotate /\ [][NextRotate]_vars

\* ------------------------------------------------------------------ run(), whole

\* cfg.BackupCount of the run: no rotation, or one backup kept.
RunBackupCounts == {0, 1}

\* The archive of the run: backups/ is empty when run() starts, so one name and
\* one time of writing stand for all.
RunZips == {z \in NewZips : z.name = 1 /\ z.mod = 1}

\* run(), lines 361-371: backup.PerformBackup(worlds, cfg.BackupCount), if
\* cfg.AutoBackup.
RN_Backup ==
    /\ rpc = "backup"
    /\ \E autoBackup \in BOOLEAN :
          IF ~autoBackup
          THEN rpc' = "run_server" /\ UNCHANGED <<runResult, rotVars>>
          ELSE \E hasWorlds \in BOOLEAN, BackupCount \in RunBackupCounts, zip \in RunZips,
                  fails \in OneOf(BackupFaults) :
                  \E o \in PerformBackup(backupDir, rot, hasWorlds, BackupCount, zip, fails) :
                     /\ backupDir' = o.dir
                     /\ rot' = o.rot
                     /\ IF o.err # "nil"
                        THEN RunReturns("backup")
                        ELSE rpc' = "run_server" /\ UNCHANGED runResult
    /\ UNCHANGED <<jars, sidecars, oldJar, latest, jarFile, expected, verdict, asked,
                   buildHas, buildErr, vcall>>
    /\ UNCHANGED <<ctxVars, reqVars, dpc, fileVars, copyVars, result, faults, upc,
                   checkVars, exeVars>>
    /\ UNCHANGED <<compared, installs, backup0, javaVars, callVars>>

\* run() whole: the self-update block, lines 223-269 step by step, then the JAR,
\* the backup and the server.
NextRun ==
    \/ CheckForUpdate
    \/ UP_CheckFailed
    \/ UP_NoUpdate
    \/ UP_Decide
    \/ UP_DownloadUnavailable
    \/ UP_DownloadGitHub
    \/ UP_DownloadFailed
    \/ UP_ChmodFails
    \/ UP_Downloaded
    \/ UP_ValidateFails
    \/ UP_Validated
    \/ UP_InstallUpdate
    \/ JV_Start
    \/ JV_CheckJava
    \/ JV_Send
    \/ JV_GetSystemRAM
    \/ JV_Join
    \/ JV_HandleEULA
    \/ RN_FindJarFails
    \/ RN_Found
    \/ RN_NoJar
    \/ RN_LoadChecksum
    \/ RN_ValidateChecksum
    \/ RN_ValidateStructure
    \/ RN_CheckUpdate
    \/ RN_UpdateJar
    \/ RN_Backup
    \/ RN_RunServer

SpecRun == InitRun /\ [][NextRun]_vars

\* ----------------------------------------------------------- normalizeVersion

\* Calls of normalizeVersion in a row, each on what the one before returned
\* (getVersionFromGit and then CheckForUpdate normalize the same string).
MaxNormalize == 2

NormalizeChars == {"1", ".", "v", " "}
NormalizeInputs == SeqsUpTo(NormalizeChars, MaxTagLen)

\* normalizeVersion(version), on the input first and then on its own result.
NV_normalizeVersion ==
    /\ Len(normalized.results) < MaxNormalize
    /\ LET arg == IF normalized.results = <<>> THEN normalized.version
                  ELSE normalized.results[Len(normalized.results)]
       IN  normalized' = [normalized EXCEPT !.results = Append(@, normalizeVersion(arg))]
    /\ UNCHANGED <<ctxVars, reqVars, dpc, fileVars, copyVars, result, faults, upc,
                   checkVars, exeVars, runVars, compared, installs, backup0, javaVars,
                   rotVars, srv>>

InitNormalize ==
    /\ DownloadInit("idle")
    /\ urlOK
    /\ dest = NoFile
    /\ part = NoFile
    /\ UpdateIdle
    /\ RunIdle
    /\ compared = NoComparison
    /\ installs = 0
    /\ backup0 = NoFile
    /\ JavaIdle
    /\ RotIdle
    /\ srv = NoServer
    /\ \E s \in NormalizeInputs : normalized = [NoNormalize EXCEPT !.version = s]

NextNormalize == NV_normalizeVersion

SpecNormalize == InitNormalize /\ [][NextNormalize]_vars

\* ------------------------------------------------------------------ RunServer

\* Signals the run lets arrive at the launcher.
MaxSignals == 2

minJavaVersionZGC == 11
JavaVersions == {8, 11, 21}
Signals == {"interrupt", "SIGTERM"}

\* What is left alone by RunServer and the child.
ServerFrame ==
    /\ UNCHANGED <<ctxVars, reqVars, dpc, fileVars, copyVars, result, faults, upc,
                   checkVars, exeVars, runVars, compared, installs, backup0, javaVars,
                   rotVars, normalized>>

\* RunServer up to cmd.Start(): the ZGC check, signal.Notify, and the start of
\* the child, which can fail.
SV_Start ==
    /\ srv.pc = "call"
    /\ \E startFails \in BOOLEAN :
          srv' = IF srv.useZGC /\ srv.javaVersion < minJavaVersionZGC
                 THEN [srv EXCEPT !.pc = "returned", !.result = "zgc"]
                 ELSE IF startFails
                 THEN [srv EXCEPT !.pc = "returned", !.result = "start"]
                 ELSE [srv EXCEPT !.pc = "spawn", !.child = "running"]
    /\ ServerFrame

\* go func() { done <- cmd.Wait() }()
SV_Spawn ==
    /\ srv.pc = "spawn"
    /\ srv' = [srv EXCEPT !.pc = "select", !.wpc = "waiting"]
    /\ ServerFrame

\* The child exits: by itself, on a signal it was sent, or killed. A child
\* that does not stop by itself (stubborn) exits only when killed.
SV_ChildExits ==
    /\ srv.child = "running"
    /\ ~srv.stubborn \/ srv.delivered = "kill"
    /\ srv' = [srv EXCEPT !.child = "exited"]
    /\ ServerFrame

\* cmd.Wait() returns once the child has exited, and the goroutine sends what
\* it returned on done (capacity 1).
SV_Wait ==
    /\ srv.wpc = "waiting"
    /\ srv.child = "exited"
    /\ Len(srv.done) < 1
    /\ \E err \in {"nil", "exit"} :
          srv' = [srv EXCEPT !.wpc = "sent", !.done = Append(@, err)]
    /\ ServerFrame

\* An interrupt or SIGTERM arrives at the launcher, after signal.Notify: it is
\* put on sigChan (capacity 1) unless the channel is full.
SV_Signal ==
    /\ srv.pc \in {"spawn", "select", "forward", "wait", "returned"}
    /\ srv.child # "none"
    /\ srv.signals < MaxSignals
    /\ \E sig \in Signals :
          srv' = [srv EXCEPT !.signals = @ + 1,
                             !.sigChan = IF Len(@) < 1 THEN Append(@, sig) ELSE @]
    /\ ServerFrame

\* select: case err := <-done
SV_SelectDone ==
    /\ srv.pc = "select"
    /\ srv.done # <<>>
    /\ srv' = [srv EXCEPT !.pc = "returned", !.done = Tail(@),
                          !.result = IF Head(srv.done) = "nil" THEN "nil" ELSE "error"]
    /\ ServerFrame

\* select: case sig := <-sigChan
SV_SelectSignal ==
    /\ srv.pc = "select"
    /\ srv.sigChan # <<>>
    /\ srv' = [srv EXCEPT !.pc = "forward", !.sigChan = Tail(@), !.sig = Head(srv.sigChan)]
    /\ ServerFrame

\* cmd.Process.Signal(sig), and cmd.Process.Kill() if it returned an error;
\* both fail once cmd.Wait() has returned (the child is reaped), and either
\* can fail before; a child that has exited and is not yet reaped still takes
\* them. The error of Kill is dropped.
SV_Forward ==
    /\ srv.pc = "forward"
    /\ \E signalFails \in BOOLEAN, killFails \in BOOLEAN :
          LET gone == srv.wpc = "sent"
          IN  srv' = IF ~(signalFails \/ gone)
                     THEN [srv EXCEPT !.pc = "wait", !.calls = <<"Signal">>,
                                      !.delivered = srv.sig]
                     ELSE [srv EXCEPT !.pc = "wait", !.calls = <<"Signal", "Kill">>,
                                      !.delivered = IF killFails \/ gone THEN "none"
                                                    ELSE "kill"]
    /\ ServerFrame

\* Mutant of AwaitChild: RunServer does not wait for the child after the signal.
AwaitChild_NoWait(ch) == TRUE

\* <-done, after the signal was passed on: goes on once the channel holds
\* what cmd.Wait() returned.
AwaitChild(ch) == Len(ch) > 0

\* <-done; return "server stopped by signal"
SV_AwaitDone ==
    /\ srv.pc = "wait"
    /\ AwaitChild(srv.done)
    /\ srv' = [srv EXCEPT !.pc = "returned", !.result = "signal",
                          !.done = IF @ # <<>> THEN Tail(@) ELSE @]
    /\ ServerFrame

InitServer ==
    /\ DownloadInit("idle")
    /\ urlOK
    /\ dest = NoFile
    /\ part = NoFile
    /\ UpdateIdle
    /\ RunIdle
    /\ compared = NoComparison
    /\ installs = 0
    /\ backup0 = NoFile
    /\ JavaIdle
    /\ RotIdle
    /\ normalized = NoNormalize
    /\ \E zgc \in BOOLEAN, jv \in JavaVersions, stubborn \in BOOLEAN :
          srv = [NoServer EXCEPT !.pc = "call", !.useZGC = zgc, !.javaVersion = jv,
                                 !.stubborn = stubborn]

NextServer ==
    \/ SV_Start
    \/ SV_Spawn
    \/ SV_ChildExits
    \/ SV_Wait
    \/ SV_Signal
    \/ SV_SelectDone
    \/ SV_SelectSignal
    \/ SV_Forward
    \/ SV_AwaitDone

SpecServer == InitServer /\ [][NextServer]_vars

\* ------------------------------------------------------------------ claims

IsFailure(o) == o # StatusOK
\* The calls of the operating system that DownloadFile makes on the two paths.
FsFaults == {"remove_stale", "create", "close", "remove_dest", "rename", "remove_part"}
RECURSIVE Pow(_, _)
Pow(b, n) == IF n = 0 THEN 1 ELSE b * Pow(b, n - 1)

\* C1: however DownloadFile ends, destPath is as it was before the call (absent
\* or at its prior content) or holds the complete new response body; it is
\* never missing when it existed before.
C1_UnchangedOrComplete ==
    dpc = "returned" => (dest = dest0 \/ (drResult = "resp" /\ dest = body))

\* C2: when InstallUpdate has renamed the live executable to <name>.old and the
\* rename of the staged file onto the live path fails, the original is renamed
\* back and an error is returned; and unless that restoring rename fails too,
\* InstallUpdate returns with the live path holding the original or the new
\* executable.
C2_RestoredOrInstalled ==
    instResult # "none" =>
        /\ ("install" \in instHit /\ "restore" \notin instHit) =>
               (instResult = "restored" /\ live = live0 /\ live # NoFile)
        /\ "restore" \notin instHit =>
               (instResult # "unrecoverable" /\ live # NoFile /\ live \in {live0, staged0})

C2_Witness ==
    /\ instResult = "restored"
    /\ instHit = {"install"}
    /\ staged0 # NoFile
    /\ live = live0
    /\ backup = NoFile

\* C3: if ctx is cancelled while the copy goroutine is streaming the body (and no
\* call of the operating system fails), DownloadFile returns the cancellation
\* error (ctx.Err(), or the copy error the cancellation caused), the staging file
\* does not exist from the return on, and destPath is as it was before the call.
C3_CancelledMidStream ==
    (dpc = "returned" /\ cancelMid /\ faults \cap FsFaults = {})
        => /\ result \in {"cancelled", "write"}
           /\ part = NoFile
           /\ dest = dest0

\* C4: a call whose attempts 1 and 2 fail and whose attempt 3 gets status 200
\* (no cancellation, no failing stream or file call afterwards) returns success,
\* destPath then holds exactly that response's body, and the staging file is gone.
C4_ThirdAttemptSucceeds ==
    ( /\ dpc = "returned"
      /\ Len(outcomes) = 3
      /\ IsFailure(outcomes[1]) /\ IsFailure(outcomes[2]) /\ outcomes[3] = StatusOK
      /\ ~ctxDone
      /\ faults \cap {"stream", "create", "close", "remove_dest", "rename"} = {} )
        => /\ result = "ok"
           /\ dest = body
           /\ part = NoFile

C4_Witness ==
    /\ dpc = "returned"
    /\ outcomes = <<"transport", "500", StatusOK>>
    /\ ~ctxDone
    /\ result = "ok"
    /\ Len(body) >= 2
    /\ dest0 # NoFile
    /\ part0 # NoFile
    /\ "remove_stale" \in faults

\* What C5 says of DoRequest in a state where ctx has not been cancelled.
RetryContract ==
    /\ sent <= MaxRetries
    /\ Len(outcomes) <= MaxRetries
    \* the first 200 ends the call: no attempt follows it
    /\ \A k \in 1..Len(outcomes) : outcomes[k] = StatusOK => k = Len(outcomes)
    /\ (Len(outcomes) > 0 /\ outcomes[Len(outcomes)] = StatusOK)
            => (drResult = "resp" /\ sent = Len(outcomes))
    \* every failure before the third is followed by a retry, not by a return
    /\ (Len(outcomes) > 0 /\ Len(outcomes) < MaxRetries
            /\ IsFailure(outcomes[Len(outcomes)])) => drResult = "none"
    \* an error is returned only after the third failure, with its cause
    /\ drResult \notin {"none", "resp"}
            => /\ drResult = "exhausted"
               /\ Len(outcomes) = MaxRetries
               /\ \A k \in 1..MaxRetries : IsFailure(outcomes[k])
               /\ lastErr = outcomes[MaxRetries]

\* C5 as claimed: absent cancellation, DoRequest issues at most 3 attempts, returns
\* the first 200 without a further attempt, retries after every failure, and returns
\* an error only after the third failed attempt, carrying that attempt's cause.
C5_AsClaimed == ~ctxDone => RetryContract

\* C5 amended: the same, for a url from which http.NewRequestWithContext can build
\* a request (for another url DoRequest returns an error before any attempt).
C5_RetryContract == (~ctxDone /\ urlOK) => RetryContract

C5_Witness ==
    /\ ~ctxDone
    /\ drResult = "exhausted"
    /\ outcomes = <<"transport", "404", "500">>
    /\ lastErr = "500"

\* C6 as claimed: once ctx is cancelled during a backoff or while a request is
\* in flight, DoRequest issues no further HTTP attempt and returns nothing but
\* the cancellation error, and its return does not depend on the rest of the
\* delay: the cancellation branch can be taken at once.
C6_CancelUnblocks ==
    /\ cancelAt \in {"backoff", "inflight"}
            => /\ sent = sentAtCancel
               /\ drResult \in {"none", "cancelled"}
    /\ (dpc = "backoff" /\ ctxDone) => ENABLED DR_BackoffCancelled
    /\ (dpc = "inflight" /\ ctxDone) => ENABLED DR_DoCancelled

\* C7: the k-th backoff lasts RetryDelay * 2^(k-1) seconds (2 s before the second
\* attempt, 4 s before the third), and attempt number n is issued after exactly
\* n - 1 backoffs: none before the first.
C7_BackoffSchedule ==
    /\ \A k \in 1..Len(waits) : waits[k] = RetryDelay * Pow(2, k - 1)
    /\ dpc \in {"req", "inflight"} => Len(waits) = attempt
    /\ dpc = "inflight" => sent = attempt + 1

C7_Witness ==
    /\ dpc = "inflight"
    /\ sent = 3
    /\ waits = <<2, 4>>

\* C8: when the download or the validation of the launcher update fails (and the
\* removal run() asks for does not itself fail), the sequencer moves on with the
\* live executable untouched and with neither <exe>.new nor <exe>.new.part on
\* disk; here for a run that started with neither file there.
C8_FailedStagingCleansUp ==
    (upc = "launch" /\ stageErr /\ dest0 = NoFile /\ part0 = NoFile
                    /\ "remove_staged" \notin faults) =>
        (live = live0 /\ dest = NoFile /\ part = NoFile)

CurrentVersion == normalizeVersion(GetCurrentVersion(launcherVersion, gitDescribe))

\* C9: with an unversioned development build ("dev") as the current version,
\* CheckForUpdate reports no update, whatever tag the feed returns.
C9_DevNeverUpdates ==
    (upc = "checked" /\ GetCurrentVersion(launcherVersion, gitDescribe) = V_dev)
        => ~hasUpdate

\* C10 as claimed: on a well-formed 200 answer CheckForUpdate reports an update,
\* with the release, iff compare(normalize(tag_name), normalize(currentVersion)) > 0,
\* and returns (false, nil, nil) otherwise.
C10_AsClaimed ==
    (upc = "checked" /\ feed = "ok")
        => /\ hasUpdate <=> compareVersions(normalizeVersion(tag), CurrentVersion) > 0
           /\ checkErr = "nil"
           /\ release = (IF hasUpdate THEN "release" ELSE "nil")

\* C10 amended: the same, with an update reported only when, besides, neither
\* the normalized current version nor the normalized tag is empty.
C10_ReportsIffNewer ==
    (upc = "checked" /\ feed = "ok")
        => /\ hasUpdate <=> ( /\ compareVersions(normalizeVersion(tag), CurrentVersion) > 0
                              /\ CurrentVersion # <<>>
                              /\ normalizeVersion(tag) # <<>> )
           /\ checkErr = "nil"
           /\ release = (IF hasUpdate THEN "release" ELSE "nil")

\* An equal version under two spellings: no update.
C10_Witness ==
    /\ upc = "checked"
    /\ feed = "ok"
    /\ launcherVersion = <<"1", ".", "0">>
    /\ tag = <<"v", "1">>
    /\ ~hasUpdate
    /\ release = "nil"
    /\ checkErr = "nil"

\* C11: an error of the release-feed check or of the build-feed check is only
\* logged and counts as no update for this run: CheckForUpdate returns
\* (false, nil, err), no download, install or JAR update follows, run() goes on
\* with the launch and never returns that error.
C11_FeedErrorsAreNotFatal ==
    /\ checkErr # "nil" =>
          /\ ~hasUpdate /\ release = "nil"
          /\ upc \in {"checked", "launch"}
          /\ upc = "checked" => ENABLED UP_CheckFailed
          /\ instResult = "none" /\ ~stageErr /\ live = live0
    /\ buildErr # "nil" =>
          /\ rpc \in {"backup", "run_server", "returned"}
          /\ jarFile # "" /\ oldJar = NoJar
          /\ runResult \in {"none", "nil", "server", "backup"}
    /\ runResult \notin {"transport", "status", "badjson", "format", "jar_name"}

C11_Witness ==
    /\ checkErr = "badjson"
    /\ buildErr = "jar_name"
    /\ buildHas
    /\ rpc = "run_server"

\* C12: when InstallUpdate failed and the restore failed too, the process exits
\* with a non-zero status and does not go on to launch the server in that run.
C12_UnrecoverableInstallIsFatal ==
    instResult = "unrecoverable" => (rpc # "run_server" /\ runResult # "nil")

\* C13: a found JAR that failed its verification (checksum mismatch, or the
\* structure check when there is no checksum) is passed to RunServer only after
\* the user was asked whether to download it again.
C13_FailedJarAskedBeforeLaunch ==
    (/\ rpc = "run_server"
     /\ verdict.res = "failed"
     /\ jarFile = verdict.name
     /\ jars[jarFile] = verdict.jar) => asked

\* C14: once run() has gone past the self-update block (JAR lookup, checksum
\* validation, build-feed check, DownloadJar), the update check and the
\* download/validate/install sequence are over and no call of it is running.
\* (run() returning from inside the block, after an install, has not gone
\* past it.)
C14_SelfUpdateBeforeArtifact ==
    (rpc # "none" /\ ~(rpc = "returned" /\ upc = "restart")) =>
        (upc = "launch" /\ dpc = "idle" /\ result = "none")

C14_Witness ==
    /\ rpc = "check_update"
    /\ instResult = "restored"
    /\ jarFile = "found"

\* C15: InstallUpdate is called only after DownloadUpdate returned success and
\* ValidateUpdate accepted the staged file (it exists, its size is greater than
\* 0); a staged file ValidateUpdate rejects is deleted (unless the removal
\* fails) and not installed.
C15_InstallOnlyValidated ==
    [][ /\ (upc' = "validate" /\ upc # "validate") =>
              (upc = "downloading" /\ dpc = "returned" /\ result = "ok")
        /\ (upc' = "install" /\ upc # "install") =>
              (upc = "validate" /\ dest # NoFile /\ Len(dest) > 0)
        /\ instResult' # instResult =>
              (upc = "install" /\ dest # NoFile /\ Len(dest) > 0 /\ staged0' = dest)
        /\ (upc = "validate" /\ upc' = "launch") =>
              (/\ instResult' = "none"
               /\ dest' = NoFile \/ "remove_staged" \in faults') ]_vars

C15_Witness ==
    /\ upc = "restart"
    /\ instResult = "ok"
    /\ live = staged0
    /\ Len(staged0) > 0

\* A checksum as a sidecar must hold it: DigestLen hexadecimal characters.
IsDigest(d) == Len(d) = DigestLen /\ \A i \in 1..Len(d) : IsHex(d[i])

\* C16: LoadChecksumFile returns an empty digest and no error for a missing
\* sidecar; for a sidecar whose content, white space trimmed, is not exactly 64
\* hexadecimal characters it returns an error and no digest (and for one whose
\* content is, that content).
C16_LoadRejectsMalformed ==
    (vcall.op = "LoadChecksumFile" /\ vcall.clean) =>
        LET text == sidecars["found"]
        IN  /\ text = NoFile => (vcall.checksum = <<>> /\ vcall.err = "nil")
            /\ (text # NoFile /\ ~IsDigest(TrimSpace(text))) =>
                  (vcall.checksum = <<>> /\ vcall.err \in {"length", "nonhex"})
            /\ (text # NoFile /\ IsDigest(TrimSpace(text))) =>
                  (vcall.checksum = TrimSpace(text) /\ vcall.err = "nil")

C16_Witness ==
    /\ vcall.op = "LoadChecksumFile"
    /\ vcall.clean
    /\ sidecars["found"] # NoFile
    /\ Len(sidecars["found"]) = DigestLen - 1
    /\ vcall.err = "length"

\* C17: ValidateChecksum with an empty expected digest returns success whatever
\* the JAR path holds, also when the file is missing or cannot be read.
C17_EmptyExpectedSucceeds ==
    (vcall.op = "ValidateChecksum" /\ vcall.arg = <<>>) => vcall.err = "nil"

C17_Witness ==
    /\ vcall.op = "ValidateChecksum"
    /\ vcall.arg = <<>>
    /\ ~jars["found"].exists
    /\ ~vcall.clean
    /\ vcall.err = "nil"

\* C18: for every file of length >= 1, computing its digest succeeds and gives
\* 64 hexadecimal characters, verifying the unchanged file against that digest
\* succeeds, and verifying it against any other digest fails with a mismatch.
C18_ComputeThenVerify ==
    LET f == jars["found"]
    IN  /\ (/\ vcall.op = "ValidateJarAndCalculateChecksum"
            /\ vcall.clean /\ f.exists /\ f.size >= 1) =>
               (vcall.err = "nil" /\ IsDigest(vcall.checksum))
        /\ (/\ vcall.op = "ValidateChecksum"
            /\ vcall.clean /\ f.exists /\ f.size >= 1 /\ IsDigest(vcall.arg)) =>
               vcall.err = IF EqualFold(vcall.arg, Sha256Hex(f.id)) THEN "nil" ELSE "mismatch"

\* C19: SaveChecksumFile(p, d) with d of exactly 64 hexadecimal characters,
\* then LoadChecksumFile(p), returns d unchanged, whatever p held before.
C19_SaveThenLoad ==
    (/\ vcall.op = "LoadChecksumFile"
     /\ vcall.clean
     /\ vcall.prevOp = "SaveChecksumFile"
     /\ vcall.prevErr = "nil"
     /\ IsDigest(vcall.prevArg)) =>
        (vcall.err = "nil" /\ vcall.checksum = vcall.prevArg)

C19_Witness ==
    /\ vcall.op = "LoadChecksumFile"
    /\ vcall.clean
    /\ vcall.prevOp = "SaveChecksumFile"
    /\ vcall.prevErr = "nil"
    /\ vcall.prevArg = Upper(GoodDigest)
    /\ vcall.checksum = Upper(GoodDigest)
    /\ jars["found"] = GoodJar

\* C20: ValidateJarFile reports the first check that fails, in the order
\* NotFound, Empty, TooSmall, BadMagic, CorruptContainer, NoEntries, and accepts
\* a file that passes the six.
C20_FirstFailingCheck ==
    (vcall.op = "ValidateJarFile" /\ vcall.clean) =>
        LET f == jars["found"]
            failing == <<~f.exists, f.size = 0, f.size < minJarSize, f.head # ZipMagic,
                         ~f.dir, f.entries = 0>>
            kinds == <<"not_found", "empty", "too_small", "bad_magic", "corrupt",
                       "no_entries">>
        IN  IF \E i \in 1..6 : failing[i]
            THEN vcall.err = kinds[CHOOSE i \in 1..6 :
                                      failing[i] /\ \A j \in 1..(i - 1) : ~failing[j]]
            ELSE vcall.err = "nil"

C20_Witness ==
    /\ vcall.op = "ValidateJarFile"
    /\ vcall.clean
    /\ jars["found"] = FiveZeroBytes
    /\ vcall.err = "too_small"

\* C21 as claimed: ValidateJarFile fails with Empty on a zero-byte file, and
\* with BadMagic on a 5-byte file whose bytes are not the magic number.
C21_AsClaimed ==
    (vcall.op = "ValidateJarFile" /\ vcall.clean) =>
        /\ jars["found"] = EmptyFile => vcall.err = "empty"
        /\ jars["found"] = FiveZeroBytes => vcall.err = "bad_magic"

\* C21 amended: ValidateJarFile fails with Empty on a zero-byte file, with
\* TooSmall on a 5-byte file whose bytes are not the magic number (the size is
\* looked at first), and with BadMagic on such a file of minJarSize bytes.
C21_EmptyTooSmallBadMagic ==
    (vcall.op = "ValidateJarFile" /\ vcall.clean) =>
        /\ jars["found"] = EmptyFile => vcall.err = "empty"
        /\ jars["found"] = FiveZeroBytes => vcall.err = "too_small"
        /\ jars["found"] = Garbage22 => vcall.err = "bad_magic"

C21_Witness ==
    /\ vcall.op = "ValidateJarFile"
    /\ vcall.clean
    /\ jars["found"].size = 5
    /\ jars["found"].head = <<0, 0>>
    /\ vcall.err # "bad_magic"

\* C22: compareVersions is antisymmetric, compare(a, b) = -compare(b, a), and
\* compare(x, x) = 0 for every x.
C22_Antisymmetric ==
    compared.called =>
        /\ compared.result = 0 - compareVersions(compared.v2, compared.v1)
        /\ compared.v1 = compared.v2 => compared.result = 0

C22_Witness ==
    /\ compared.called
    /\ compared.result = -1
    /\ compareVersions(compared.v2, compared.v1) = 1

\* The components of a version string: what lies between its dots.
RECURSIVE SplitDots(_, _)
SplitDots(v, cur) ==
    IF v = <<>> THEN <<cur>>
    ELSE IF Head(v) = "." THEN <<cur>> \o SplitDots(Tail(v), <<>>)
    ELSE SplitDots(Tail(v), Append(cur, Head(v)))

\* The decimal value of a component, as its digits without leading zeros; the
\* value 0 of an empty component, or of one with a character that is no digit,
\* is the empty sequence.
RECURSIVE StripZeros(_)
StripZeros(c) == IF c # <<>> /\ Head(c) = "0" THEN StripZeros(Tail(c)) ELSE c
DecimalValue(c) ==
    IF \A k \in 1..Len(c) : IsDigit(c[k]) THEN StripZeros(c) ELSE <<>>

\* The sign of x - y for two decimal values.
DecimalSign(x, y) ==
    IF Len(x) # Len(y) THEN (IF Len(x) > Len(y) THEN 1 ELSE -1)
    ELSE IF x = y THEN 0
    ELSE LET k == CHOOSE i \in 1..Len(x) :
                      x[i] # y[i] /\ \A j \in 1..(i - 1) : x[j] = y[j]
         IN  IF DigitValue(x[k]) > DigitValue(y[k]) THEN 1 ELSE -1

\* The left-to-right comparison of the component sequences, the shorter one
\* padded with zero components.
ComponentwiseSign(a, b) ==
    LET ca == SplitDots(a, <<>>)
        cb == SplitDots(b, <<>>)
        n == IF Len(ca) > Len(cb) THEN Len(ca) ELSE Len(cb)
        val(cs, k) == IF k <= Len(cs) THEN DecimalValue(cs[k]) ELSE <<>>
        differ == {k \in 1..n : val(ca, k) # val(cb, k)}
    IN  IF differ = {} THEN 0
        ELSE LET k == CHOOSE i \in differ : \A j \in differ : i <= j
             IN  DecimalSign(val(ca, k), val(cb, k))

\* C23 as claimed: compareVersions(a, b) is the sign of the left-to-right
\* comparison of the dot-separated components, the shorter sequence padded
\* with zeros, a component counting as its decimal value if it is all digits and
\* as 0 if it is empty or has a character that is no digit.
C23_AsClaimed ==
    compared.called =>
        compared.result = ComponentwiseSign(compared.v1, compared.v2)

\* What holds of C23: the same for components whose decimal value is below 2^63,
\* here those of fewer than 19 digits.
C23_ComponentwiseBelowOverflow ==
    (compared.called /\ compared.v1 \notin LongVersions /\ compared.v2 \notin LongVersions)
        => compared.result = ComponentwiseSign(compared.v1, compared.v2)

\* C24 as claimed: run() offers and downloads an update only when the release
\* is newer and has an asset for this platform; a newer release without such
\* an asset is no update, and no download failure.
C24_AsClaimed ==
    /\ (hasUpdate /\ upc \in {"checked", "download"}) => hasAsset
    /\ ~hasAsset => ~stageErr

\* C25: after every successful InstallUpdate, <exe>.old holds the executable
\* that was live immediately before that install, whatever .old held before, and
\* the live path holds the staged file: one backup generation, the latest.
C25_BackupIsPreviousLive ==
    (upc = "restart" /\ instResult = "ok") =>
        /\ backup = live0
        /\ backup # NoFile
        /\ live = staged0

C25_Witness ==
    /\ upc = "restart"
    /\ instResult = "ok"
    /\ installs = 2
    /\ backup0 # NoFile
    /\ backup0 # live0
    /\ backup = live0

\* The sidecar text holds the SHA-256 digest of the JAR j: it loads as a digest
\* that equals the digest of j's content, as hexadecimal numbers.
HoldsDigestOf(text, j) ==
    LET loaded == LoadChecksumFile(text, FALSE)
    IN  /\ j.exists
        /\ loaded.err = "nil"
        /\ EqualFold(loaded.checksum, Sha256Hex(j.id))

\* C26: whenever DownloadJar returns success for a JAR, <jar>.sha256 exists and
\* holds the SHA-256 digest of the JAR's current content; and a call writes the
\* sidecar only for a downloaded file that passed the structural validation,
\* with that file's digest (all of it, unless the write failed and the call
\* returned that error).
C26_SuccessHasSidecar ==
    [][ vcall'.op = "DownloadJar" =>
          /\ vcall'.err = "nil" => HoldsDigestOf(sidecars'[vcall'.arg], jars'[vcall'.arg])
          /\ \A n \in JarNames :
                sidecars'[n] # sidecars[n] =>
                    /\ n = vcall'.arg
                    /\ ValidateJarFile(jars'[n], {}) = "nil"
                    /\ \/ sidecars'[n] = Sha256Hex(jars'[n].id)
                       \/ /\ vcall'.err = "save"
                          /\ sidecars'[n] \in {<<>>, SubSeq(Sha256Hex(jars'[n].id), 1,
                                                                DigestLen \div 2)} ]_vars

C26_Witness ==
    /\ vcall.op = "DownloadJar"
    /\ vcall.err = "nil"
    /\ vcall.arg = "found"
    /\ jars["found"] = GoodJar
    /\ sidecars["found"] = Upper(GoodDigest)

\* C27 as claimed: updating the managed JAR never renames, overwrites or deletes
\* the existing JAR, which stays in place under its filename.
C27_AsClaimed ==
    [][ rpc = "update" => jars'[jarFile] = jars[jarFile] ]_vars

\* C28: the Java check runs as a task beside the RAM query, each writing its
\* own result only; run() reads the Java result only after the task has
\* completed (it has sent its result), and does not go on to the EULA and the
\* JAR lookup before that join.
C28_JoinBeforeMainSequence ==
    /\ [](javaRes # NoJavaResult => (jpc = "done" /\ javaRes = jres))
    /\ [](rpc \in {"eula", "find"} => (jpc = "done" /\ javaRes.err = "nil"))
    /\ [](runResult \in {"java", "eula"} => jpc = "done")
    /\ [][ /\ (jpc # "none" /\ <<jpc, jres>>' # <<jpc, jres>>)
                 => UNCHANGED <<rpc, runResult, javaRes, ramRes>>
           /\ ramRes' # ramRes => UNCHANGED <<jpc, jres, javaChan, javaRes>> ]_vars

\* The RAM query ended while the Java check was still running, and run() waited
\* for it.
C28_Witness ==
    /\ rpc = "eula"
    /\ jpc = "done"
    /\ javaRes = jres
    /\ javaRes.err = "nil"
    /\ ramRes # NoRam

\* The files named backup-*.zip in BackupDir.
BackupsLeft == {f \in backupDir : f.kind = "backup"}

\* C29 as claimed: after rotateBackups(limit), limit >= 1, has completed
\* without error, at most limit files named backup-*.zip remain, and every
\* deleted backup is older than every one retained.
C29_AsClaimed ==
    (rot.called /\ rot.limit >= 1 /\ rot.result = "nil") =>
        /\ Cardinality(BackupsLeft) <= rot.limit
        /\ \A d \in rot.deleted, r \in BackupsLeft : d.mod < r.mod

\* C29 amended: after rotateBackups(limit), limit >= 1, has completed without
\* error, at most limit of the backups whose file information could be read
\* remain, none of the deleted is newer than one of these, and only files named
\* backup-*.zip were deleted; a backup whose information could not be read is
\* neither counted nor deleted.
C29_AtMostLimitReadable ==
    (rot.called /\ rot.limit >= 1 /\ rot.result = "nil") =>
        LET readable == Counted(backupDir, rot.unreadable)
        IN  /\ Cardinality(readable) <= rot.limit
            /\ \A d \in rot.deleted, r \in readable : d.mod <= r.mod
            /\ \A d \in rot.deleted : d.kind = "backup" /\ d.name \notin rot.unreadable
            /\ rot.deleted \cap backupDir = {}
            /\ rot.deleted # {} => Cardinality(readable) = rot.limit

C29_Witness ==
    /\ rot.called
    /\ rot.limit = 1
    /\ rot.result = "nil"
    /\ Cardinality(rot.deleted) = 2
    /\ Cardinality(BackupsLeft) = 1
    /\ \A d \in rot.deleted, r \in BackupsLeft : d.mod < r.mod

\* C30: DownloadFile writes the bytes of the response only to <destPath>.part;
\* it neither removes destPath nor renames over it until the whole body has
\* been written to the .part file and that file has been closed successfully;
\* and a prior destPath is removed only as the step directly before the rename.
C30_PartThenCloseThenSwap ==
    [][ /\ copied' # copied => (part' = Append(part, body[copied + 1]) /\ dest' = dest)
        /\ dest' # dest =>
              /\ closed /\ out = "closed"
              /\ cpc = "sent" /\ copied = Len(body) /\ part = body
              /\ \/ dpc = "stat_dest" /\ dpc' = "rename" /\ dest' = NoFile
                 \/ dpc = "rename" /\ dpc' = "returned" /\ dest' = body
        /\ dpc = "rename" =>
              \/ dpc' = "rename" /\ dest' = dest
              \/ dpc' = "returned" /\ (dest' = body \/ "rename" \in faults') ]_vars

C30_Witness ==
    /\ dpc = "rename"
    /\ dest0 # NoFile
    /\ dest = NoFile
    /\ closed
    /\ Len(body) = MaxBody
    /\ part = body

\* C31: a <destPath>.part left by an interrupted download is never resumed:
\* after a successful DownloadFile destPath holds exactly the new response
\* body, with no byte of the stale file, also when removing the stale file
\* failed.
C31_StalePartDiscarded ==
    (dpc = "returned" /\ result = "ok") =>
        /\ dest = body
        /\ part = NoFile
        /\ \A k \in 1..Len(dest) : dest[k] \in BodyBytes

C31_Witness ==
    /\ dpc = "returned"
    /\ result = "ok"
    /\ part0 = StalePart
    /\ "remove_stale" \in faults
    /\ dest = body
    /\ Len(body) = MaxBody

\* C32 as claimed: the download of the launcher's update asset retries like
\* the download of the managed JAR, with or without a GitHub token: when it
\* ends (ctx not cancelled) after an attempt that failed in transport or with a
\* status other than 200, that was the third attempt, with two backoffs before.
C32_AsClaimed ==
    (upc = "downloading" /\ dpc = "returned" /\ ~ctxDone
        /\ outcomes # <<>> /\ IsFailure(outcomes[Len(outcomes)]))
        => (Len(outcomes) = MaxRetries /\ Len(waits) = MaxRetries - 1)

\* What holds of C32: the same for the download without a token, which is
\* utils.DownloadFile.
C32_WithoutToken ==
    (~useToken /\ upc = "downloading" /\ dpc = "returned" /\ ~ctxDone
        /\ outcomes # <<>> /\ IsFailure(outcomes[Len(outcomes)]))
        => (Len(outcomes) = MaxRetries /\ Len(waits) = MaxRetries - 1)

\* C33: DownloadJar returns a JAR that is there without downloading only if its
\* sidecar loads as a well-formed digest and the JAR's SHA-256 equals it; with
\* a missing or malformed sidecar, or a digest that differs, it downloads the
\* JAR anew; the check of the JAR on disk comes before that decision. (The feed
\* has named the JAR; a call in which no file operation fails reuses a JAR whose
\* sidecar is good.)
C33_ReuseOnlyVerified ==
    [][ (vcall'.op = "DownloadJar" /\ vcall'.err # "feed") =>
          LET n == vcall'.arg
              loaded == LoadChecksumFile(sidecars[n], FALSE)
              good == /\ jars[n].exists
                      /\ loaded.err = "nil"
                      /\ loaded.checksum # <<>>
                      /\ EqualFold(loaded.checksum, Sha256Hex(jars[n].id))
          IN  /\ vcall'.fetch = "none" =>
                    (good /\ vcall'.err = "nil" /\ jars' = jars /\ sidecars' = sidecars)
              /\ ~good => vcall'.fetch # "none"
              /\ (good /\ vcall'.clean) => vcall'.fetch = "none" ]_vars

C33_Witness ==
    /\ vcall.op = "DownloadJar"
    /\ vcall.err = "nil"
    /\ vcall.fetch = "none"
    /\ vcall.arg = "found"
    /\ sidecars["found"] = <<" ">> \o GoodDigest \o <<"\n">>

\* A JAR with a sidecar of another digest was downloaded anew.
C33_Redownloaded ==
    /\ vcall.op = "DownloadJar"
    /\ vcall.fetch = "ok"
    /\ vcall.arg = "found"
    /\ vcall.err = "nil"
    /\ jars["found"] = NewerJar

\* C34: after a successful install of the launcher update run() says that a
\* restart is needed and returns nil: it has not looked for the managed JAR,
\* has not touched it or its sidecar, and does not start the server in that run.
C34_InstalledThenReturns ==
    /\ [](instResult = "ok" =>
            /\ upc = "restart"
            /\ rpc = "returned" /\ runResult = "nil"
            /\ jarFile = "" /\ verdict = NoVerdict /\ vcall = NoCall /\ ~asked /\ ~buildHas
            /\ oldJar = NoJar)
    /\ [][ (instResult' = "ok" \/ upc # "launch") =>
              UNCHANGED <<jars, sidecars, oldJar, jarFile>> ]_vars
    /\ [][ instResult = "ok" => UNCHANGED <<upc, rpc, runResult>> ]_vars

C34_Witness ==
    /\ instResult = "ok"
    /\ upc = "restart"
    /\ rpc = "returned"
    /\ runResult = "nil"
    /\ jars["found"] = GoodJar
    /\ jarFile = ""

\* C35: whenever InstallUpdate returns an error other than the failed restore,
\* the live executable path still holds the executable that was live before
\* the call.
C35_AsClaimed ==
    instResult \notin {"none", "ok", "unrecoverable"} => live = live0

\* C36: the copy goroutine started by DownloadFile always comes to its send on
\* the result channel, and the send never blocks: while it copies the buffer of
\* the channel has room, also after DownloadFile returned on a cancelled
\* context, when nobody receives any more.
C36_CopierDelivers ==
    /\ [](cpc = "copying" => CanSend(done))
    /\ [](Len(done) <= DoneCap)
    /\ (cpc = "copying" ~> cpc = "sent")

C36_Witness ==
    /\ dpc = "returned"
    /\ result = "cancelled"
    /\ cpc = "sent"
    /\ Len(done) = 1

\* C37: when the update of the managed JAR has moved the JAR to <jar>.old and
\* DownloadJar then fails, the JAR is back under its own filename when run()
\* returns the error: a failed update never ends with the JAR still at
\* <jar>.old.
C37_AsClaimed ==
    [][ (rpc = "update" /\ runResult' = "update" /\ jars[jarFile].exists) =>
          oldJar' # jars[jarFile] ]_vars

\* C38: a signal that RunServer takes from sigChan is passed on to the child
\* with Process.Signal, and with Process.Kill if that failed, and RunServer
\* then returns only once cmd.Wait() has returned; whenever RunServer has
\* returned after starting the child, the child has exited.
C38_ReturnsAfterChildExit ==
    /\ [](srv.pc = "returned" /\ srv.child # "none" => srv.child = "exited")
    /\ [](srv.result = "signal" =>
            /\ srv.sig \in Signals
            /\ \/ srv.calls = <<"Signal">> /\ srv.delivered = srv.sig
               \/ srv.calls = <<"Signal", "Kill">> /\ srv.delivered \in {"kill", "none"})
    /\ [][ srv.pc = "forward" => srv'.pc \in {"forward", "wait"} ]_vars
    /\ [][ (srv.pc = "wait" /\ srv'.pc = "returned") => srv.wpc = "sent" ]_vars

C38_Witness ==
    /\ srv.pc = "returned"
    /\ srv.result = "signal"
    /\ srv.stubborn
    /\ srv.calls = <<"Signal", "Kill">>
    /\ srv.delivered = "kill"
    /\ srv.child = "exited"

\* C39: compareVersions is transitive and total: if compare(a, b) >= 0 and
\* compare(b, c) >= 0 then compare(a, c) >= 0, and of compare(a, b) and
\* compare(b, a) one is >= 0; it is a total preorder on version strings.
C39_Transitive ==
    compared.called =>
        /\ compared.result >= 0 \/ compareVersions(compared.v2, compared.v1) >= 0
        /\ compared.result >= 0 =>
              \A c \in VersionStrings :
                 compareVersions(compared.v2, c) >= 0 =>
                    compareVersions(compared.v1, c) >= 0

C39_Witness ==
    /\ compared.called
    /\ compared.result = 1
    /\ compared.v1 \in LongVersions
    /\ \E c \in VersionStrings :
          /\ compareVersions(compared.v2, c) = 1
          /\ compareVersions(compared.v1, c) = 1

\* C40: normalizeVersion is idempotent: applied to its own result it returns
\* that result again, for every string.
C40_AsClaimed ==
    Len(normalized.results) >= 2 => normalized.results[2] = normalized.results[1]

====
